---- MODULE Spec2Model ----
(***************************************************************************)
(* Layout engine (src/app/lib/layout-engine.ts), diff editor               *)
(* (src/app/lib/apply-edits.ts), repair passes and schema validation of    *)
(* the design studio.                                                      *)
(*                                                                         *)
(* processLayout is a pure function of a Layout value; it is modelled as   *)
(* an operator over records.  Numbers are integers: positions, sizes and   *)
(* canvas dimensions range over small integer sets.                        *)
(***************************************************************************)
EXTENDS Integers, Sequences, FiniteSets, TLC

VARIABLES
    pc,          \* position of the caller
    layout,      \* the validated Layout handed to processLayout
    processed,   \* processLayout(layout)
    reprocessed, \* processLayout(processed)
    heap0,       \* the object heap when applyEdits is called
    heap,        \* the object heap now
    layoutRef,   \* address of the Layout object handed to applyEdits
    ops,         \* the operations handed to applyEdits
    resultRef,   \* address of the Layout object applyEdits returned (0: none yet)
    threw,       \* applyEdits ended with an exception
    rawTree,     \* the tree JSON.parse gave for the generator's output
    route,       \* the repair that was run on it
    repaired,    \* the tree as the repair left it
    repairThrew, \* the repair ended with a TypeError
    issues,      \* the issues LayoutSpecSchema.parse reported
    gradientCounter, \* svg-mapper.ts: let gradientCounter (module scope)
    svgOuts,     \* the calls of componentToSVG so far: component and result
    reactOuts,   \* the calls of componentToReact so far: component and result
    version,     \* CanvasEditor: the layout prop (a version of the Layout)
    loads,       \* CanvasEditor: the calls of loadLayout that are under way
    canvasObjects \* CanvasEditor: the objects on the fabric canvas

engineVars == <<layout, processed, reprocessed>>
editVars == <<heap0, heap, layoutRef, ops, resultRef, threw>>
repairVars == <<rawTree, route, repaired, repairThrew, issues>>
renderVars == <<gradientCounter, svgOuts, reactOuts>>
canvasVars == <<version, loads, canvasObjects>>
vars == <<pc, layout, processed, reprocessed, heap0, heap, layoutRef, ops, resultRef, threw,
          rawTree, route, repaired, repairThrew, issues,
          gradientCounter, svgOuts, reactOuts, version, loads, canvasObjects>>

\* ------------------------------------------------------------------------
\* Bounds of the model
\* ------------------------------------------------------------------------
MaxComps == 3
MaxOps == 2
MaxEntries == 2

\* ------------------------------------------------------------------------
\* layout-engine.ts
\* ------------------------------------------------------------------------
GRID == 4

Max(a, b) == IF a >= b THEN a ELSE b
Min(a, b) == IF a <= b THEN a ELSE b

\* Math.round(v / GRID) * GRID  (Math.round rounds halves towards +infinity)
snapFloor(v) == (v \div GRID) * GRID
snap(v) == ((2 * v + GRID) \div (2 * GRID)) * GRID

\* step 1 of processLayout, one component
clampNoLower(comp, cw, ch) ==
    [comp EXCEPT !.position =
        [x |-> Min(comp.position.x, cw - comp.size.width),
         y |-> Min(comp.position.y, ch - comp.size.height)]]
clampComp(comp, cw, ch) ==
    [comp EXCEPT !.position =
        [x |-> Max(0, Min(comp.position.x, cw - comp.size.width)),
         y |-> Max(0, Min(comp.position.y, ch - comp.size.height))]]

\* step 2 of processLayout, one component
snapCompAndSize(comp) ==
    [comp EXCEPT !.position =
        [x |-> snap(comp.position.x), y |-> snap(comp.position.y)],
                 !.size =
        [width |-> snap(comp.size.width), height |-> snap(comp.size.height)]]
snapComp(comp) ==
    [comp EXCEPT !.position =
        [x |-> snap(comp.position.x), y |-> snap(comp.position.y)]]

clampAll(l) ==
    [l EXCEPT !.components =
        [k \in 1..Len(l.components) |->
            clampComp(l.components[k], l.canvasWidth, l.canvasHeight)]]

snapAll(l) ==
    [l EXCEPT !.components =
        [k \in 1..Len(l.components) |-> snapComp(l.components[k])]]

overlapArea(a, b) ==
    LET ox == Max(0, Min(a.position.x + a.size.width, b.position.x + b.size.width)
                     - Max(a.position.x, b.position.x))
        oy == Max(0, Min(a.position.y + a.size.height, b.position.y + b.size.height)
                     - Max(a.position.y, b.position.y))
    IN  ox * oy

intersects(a, b) ==
    ~ (\/ a.position.x + a.size.width <= b.position.x
       \/ b.position.x + b.size.width <= a.position.x
       \/ a.position.y + a.size.height <= b.position.y
       \/ b.position.y + b.size.height <= a.position.y)

smallerArea(a, b) ==
    Min(a.size.width * a.size.height, b.size.width * b.size.height)

\* overlap / smallerArea <= 0.25  (the pair is left alone)
withinThresholdStrict(overlap, smaller) == 4 * overlap < smaller
withinThreshold(overlap, smaller) == 4 * overlap <= smaller

\* the y given to the second component of a colliding pair
nudgedYNoGap(a, b) ==
    b.position.y + (a.position.y + a.size.height - b.position.y)
nudgedY(a, b) ==
    b.position.y + (a.position.y + a.size.height - b.position.y) + GRID

\* body of the inner loop of resolveCollisions for the pair (i, j)
collidePair(result, i, j) ==
    LET a == result[i]
        b == result[j]
    IN  IF a.zIndex # b.zIndex THEN result
        ELSE IF ~ intersects(a, b) THEN result
        ELSE IF withinThreshold(overlapArea(a, b), smallerArea(a, b)) THEN result
        ELSE IF a.position.y + a.size.height - b.position.y > 0
             THEN [result EXCEPT ![j].position.y = nudgedY(a, b)]
             ELSE result

RECURSIVE collideLoop(_, _, _)
collideLoop(result, i, j) ==
    IF i > Len(result) THEN result
    ELSE IF j > Len(result) THEN collideLoop(result, i + 1, i + 2)
    ELSE collideLoop(collidePair(result, i, j), i, j + 1)

resolveCollisions(components) == collideLoop(components, 1, 2)

\* Array.prototype.sort((a, b) => a.zIndex - b.zIndex): a stable sort
RECURSIVE insertByZ(_, _)
insertByZ(sorted, c) ==
    IF sorted = <<>> THEN <<c>>
    ELSE IF sorted[Len(sorted)].zIndex <= c.zIndex THEN Append(sorted, c)
    ELSE Append(insertByZ(SubSeq(sorted, 1, Len(sorted) - 1), c), sorted[Len(sorted)])

RECURSIVE insertByZUnstable(_, _)
insertByZUnstable(sorted, c) ==
    IF sorted = <<>> THEN <<c>>
    ELSE IF sorted[Len(sorted)].zIndex < c.zIndex THEN Append(sorted, c)
    ELSE Append(insertByZUnstable(SubSeq(sorted, 1, Len(sorted) - 1), c),
                sorted[Len(sorted)])

RECURSIVE sortFrom(_, _, _)
sortFrom(components, k, acc) ==
    IF k > Len(components) THEN acc
    ELSE sortFrom(components, k + 1, insertByZ(acc, components[k]))

RECURSIVE sortFromUnstable(_, _, _)
sortFromUnstable(components, k, acc) ==
    IF k > Len(components) THEN acc
    ELSE sortFromUnstable(components, k + 1, insertByZUnstable(acc, components[k]))

sortByZUnstable(components) == sortFromUnstable(components, 1, <<>>)
sortByZ(components) == sortFrom(components, 1, <<>>)

processLayout(raw) ==
    LET l1 == clampAll(raw)
        l2 == snapAll(l1)
        l3 == [l2 EXCEPT !.components = resolveCollisions(l2.components)]
    IN  [l3 EXCEPT !.components = sortByZ(l3.components)]

\* ------------------------------------------------------------------------
\* The object heap applyEdits works on.  An address is a positive integer, 0
\* is undefined.  A cell is one JavaScript object or array; fields that hold
\* objects hold their address.
\*   layout  : id, canvasWidth, canvasHeight, background, components, layers
\*   list    : items (addresses)              an array of objects
\*   ids     : items (strings)                a componentIds array
\*   comp    : id, type, rotation, zIndex, content, position, size, style,
\*             children (0 when the field is absent)
\*   point   : x, y          size : width, height
\*   style   : has (the keys present), fill, fontSize, gradient
\*   gradient: angle
\*   layer   : id, visible, locked, componentIds
\*   changes : has (the keys present), rotation, zIndex, content,
\*             position, size, style
\* ------------------------------------------------------------------------
Range(seq) == { seq[k] : k \in 1..Len(seq) }

Top(h) == CHOOSE a \in DOMAIN h : \A b \in DOMAIN h : b <= a

refsOf(c) ==
    CASE c.kind = "layout" -> {c.components, c.layers}
      [] c.kind = "list"   -> Range(c.items)
      [] c.kind = "comp"   -> {c.position, c.size, c.style} \cup
                              (IF c.children = 0 THEN {} ELSE {c.children})
      [] c.kind = "style"  -> IF "gradient" \in c.has THEN {c.gradient} ELSE {}
      [] c.kind = "layer"  -> {c.componentIds}
      [] c.kind = "changes" ->
            (IF "position" \in c.has THEN {c.position} ELSE {}) \cup
            (IF "size" \in c.has THEN {c.size} ELSE {}) \cup
            (IF "style" \in c.has THEN {c.style} ELSE {})
      [] OTHER -> {}

RECURSIVE reachFrom(_, _, _)
reachFrom(h, frontier, seen) ==
    IF frontier = {} THEN seen
    ELSE LET next == UNION { refsOf(h[a]) : a \in frontier }
         IN  reachFrom(h, next \ (seen \cup frontier), seen \cup frontier)

\* the objects reachable from the object at root
Reach(h, root) == IF root = 0 THEN {} ELSE reachFrom(h, {root}, {})

shiftRef(a, off) == IF a = 0 THEN 0 ELSE a + off

shiftCell(c, off) ==
    CASE c.kind = "layout" ->
            [c EXCEPT !.components = shiftRef(@, off), !.layers = shiftRef(@, off)]
      [] c.kind = "list" ->
            [c EXCEPT !.items = [k \in 1..Len(c.items) |-> shiftRef(c.items[k], off)]]
      [] c.kind = "comp" ->
            [c EXCEPT !.position = shiftRef(@, off), !.size = shiftRef(@, off),
                      !.style = shiftRef(@, off), !.children = shiftRef(@, off)]
      [] c.kind = "style" -> [c EXCEPT !.gradient = shiftRef(@, off)]
      [] c.kind = "layer" -> [c EXCEPT !.componentIds = shiftRef(@, off)]
      [] c.kind = "changes" ->
            [c EXCEPT !.position = shiftRef(@, off), !.size = shiftRef(@, off),
                      !.style = shiftRef(@, off)]
      [] OTHER -> c

\* structuredClone(root): a deep copy made of fresh objects.  top is the
\* highest address in use; the copy of the object at r is at r + top.
noClone(h, top, root) == [heap |-> h, top |-> top, addr |-> root]
structuredClone(h, top, root) ==
    LET src == Reach(h, root)
    IN  [heap |-> [a \in { r + top : r \in src } |-> shiftCell(h[a - top], top)] @@ h,
         top |-> 2 * top,
         addr |-> root + top]

\* ------------------------------------------------------------------------
\* apply-edits.ts
\* ------------------------------------------------------------------------
\* result.components.find((c) => c.id === id): the address of the first
\* top-level component with that id, 0 (undefined) when there is none
RECURSIVE findIn(_, _, _, _)
findIn(h, items, id, k) ==
    IF k > Len(items) THEN 0
    ELSE IF h[items[k]].id = id THEN items[k]
    ELSE findIn(h, items, id, k + 1)

RECURSIVE findDeepIn(_, _, _, _)
findDeepIn(h, items, id, k) ==
    IF k > Len(items) THEN 0
    ELSE IF h[items[k]].id = id THEN items[k]
    ELSE LET sub == IF h[items[k]].children = 0 THEN 0
                    ELSE findDeepIn(h, h[h[items[k]].children].items, id, 1)
         IN  IF sub # 0 THEN sub ELSE findDeepIn(h, items, id, k + 1)

findDeep(h, res, id) == findDeepIn(h, h[h[res].components].items, id, 1)
find(h, res, id) == findIn(h, h[h[res].components].items, id, 1)

\* !comp
alwaysPresent(comp) == FALSE
isUndefined(comp) == comp = 0

\* items.filter((v) => v !== id) on a componentIds array
RECURSIVE filterIds(_, _)
filterIds(items, id) ==
    IF items = <<>> THEN <<>>
    ELSE IF items[1] # id THEN <<items[1]>> \o filterIds(Tail(items), id)
    ELSE filterIds(Tail(items), id)

\* components.filter((c) => c.id !== id)
RECURSIVE filterComps(_, _, _)
filterComps(h, items, id) ==
    IF items = <<>> THEN <<>>
    ELSE IF h[items[1]].id # id THEN <<items[1]>> \o filterComps(h, Tail(items), id)
    ELSE filterComps(h, Tail(items), id)

\* { ...comp.style, ...changes.style }: a new object, merged key by key; the
\* values of the keys are copied as they are (an object value by reference)
replaceStyle(cur, chg) ==
    [kind |-> "style", has |-> chg.has, fill |-> chg.fill,
     fontSize |-> chg.fontSize, gradient |-> chg.gradient]
mergeStyle(cur, chg) ==
    [kind |-> "style",
     has |-> cur.has \cup chg.has,
     fill |-> IF "fill" \in chg.has THEN chg.fill ELSE cur.fill,
     fontSize |-> IF "fontSize" \in chg.has THEN chg.fontSize ELSE cur.fontSize,
     gradient |-> IF "gradient" \in chg.has THEN chg.gradient ELSE cur.gradient]

\* case "modify".  st is the heap, the highest address in use and whether an
\* exception was thrown; res is the address of result.
modifyOp(st, res, op) ==
    LET h == st.heap
        comp == find(h, res, op.componentId)
    IN  IF isUndefined(comp) THEN st
        ELSE IF comp = 0 THEN [st EXCEPT !.threw = TRUE]
        ELSE
        LET changes == h[op.changes]
            c1 == IF "position" \in changes.has
                  THEN [h[comp] EXCEPT !.position = changes.position] ELSE h[comp]
            c2 == IF "size" \in changes.has
                  THEN [c1 EXCEPT !.size = changes.size] ELSE c1
            c3 == IF "rotation" \in changes.has
                  THEN [c2 EXCEPT !.rotation = changes.rotation] ELSE c2
            c4 == IF "zIndex" \in changes.has
                  THEN [c3 EXCEPT !.zIndex = changes.zIndex] ELSE c3
            c5 == IF "content" \in changes.has
                  THEN [c4 EXCEPT !.content = changes.content] ELSE c4
            fresh == st.top + 1
        IN  IF "style" \in changes.has
            THEN [st EXCEPT
                    !.heap = (fresh :> mergeStyle(h[c5.style], h[changes.style])) @@
                             [h EXCEPT ![comp] = [c5 EXCEPT !.style = fresh]],
                    !.top = fresh]
            ELSE [st EXCEPT !.heap = [h EXCEPT ![comp] = c5]]

\* case "add"
addOpLastLayer(st, res, op) ==
    LET cl == structuredClone(st.heap, st.top, op.component)
        h1 == cl.heap
        h2 == [h1 EXCEPT ![h1[res].components].items = Append(@, cl.addr)]
        layers == h2[h2[res].layers].items
    IN  IF Len(layers) > 0
        THEN [st EXCEPT
                !.heap = [h2 EXCEPT ![h2[layers[Len(layers)]].componentIds].items =
                            Append(@, h2[op.component].id)],
                !.top = cl.top]
        ELSE [st EXCEPT !.heap = h2, !.top = cl.top]
addOp(st, res, op) ==
    LET cl == structuredClone(st.heap, st.top, op.component)
        h1 == cl.heap
        h2 == [h1 EXCEPT ![h1[res].components].items = Append(@, cl.addr)]
        layers == h2[h2[res].layers].items
    IN  IF Len(layers) > 0
        THEN [st EXCEPT
                !.heap = [h2 EXCEPT ![h2[layers[1]].componentIds].items =
                            Append(@, h2[op.component].id)],
                !.top = cl.top]
        ELSE [st EXCEPT !.heap = h2, !.top = cl.top]

\* case "remove": filter makes new arrays, for the components and for the
\* componentIds of every layer
RECURSIVE purgeLayers(_, _, _, _)
purgeLayers(st, layers, id, k) ==
    IF k > Len(layers) THEN st
    ELSE LET h == st.heap
             fresh == st.top + 1
             layer == layers[k]
         IN  purgeLayers(
                [st EXCEPT
                    !.heap = (fresh :> [kind |-> "ids",
                                items |-> filterIds(h[h[layer].componentIds].items, id)])
                             @@ [h EXCEPT ![layer].componentIds = fresh],
                    !.top = fresh],
                layers, id, k + 1)

removeOpKeepLayers(st, res, op) ==
    LET h == st.heap
        fresh == st.top + 1
    IN  [st EXCEPT
            !.heap = (fresh :> [kind |-> "list",
                                items |-> filterComps(h, h[h[res].components].items,
                                                      op.componentId)])
                     @@ [h EXCEPT ![res].components = fresh],
            !.top = fresh]
removeOp(st, res, op) ==
    LET h == st.heap
        fresh == st.top + 1
        h1 == (fresh :> [kind |-> "list",
                         items |-> filterComps(h, h[h[res].components].items,
                                               op.componentId)])
              @@ [h EXCEPT ![res].components = fresh]
    IN  purgeLayers([st EXCEPT !.heap = h1, !.top = fresh],
                    h1[h1[res].layers].items, op.componentId, 1)

\* case "reorder"
reorderOpCascade(st, res, op) ==
    LET h == st.heap
        comp == find(h, res, op.componentId)
        siblings == Range(h[h[res].components].items) \ {comp}
    IN  IF comp # 0
        THEN [st EXCEPT !.heap =
                [a \in DOMAIN h |->
                    IF a = comp THEN [h[a] EXCEPT !.zIndex = op.newZIndex]
                    ELSE IF a \in siblings /\ h[a].zIndex >= op.newZIndex
                    THEN [h[a] EXCEPT !.zIndex = @ + 1]
                    ELSE h[a]]]
        ELSE st
reorderOp(st, res, op) ==
    LET h == st.heap
        comp == find(h, res, op.componentId)
    IN  IF comp # 0
        THEN [st EXCEPT !.heap = [h EXCEPT ![comp].zIndex = op.newZIndex]]
        ELSE st

\* the body of the loop over the operations
applyOpKeepLayers(st, res, op) ==
    CASE op.action = "modify"  -> modifyOp(st, res, op)
      [] op.action = "add"     -> addOp(st, res, op)
      [] op.action = "remove"  -> removeOpKeepLayers(st, res, op)
      [] op.action = "reorder" -> reorderOp(st, res, op)
      [] OTHER -> st
applyOp(st, res, op) ==
    CASE op.action = "modify"  -> modifyOp(st, res, op)
      [] op.action = "add"     -> addOp(st, res, op)
      [] op.action = "remove"  -> removeOp(st, res, op)
      [] op.action = "reorder" -> reorderOp(st, res, op)
      [] OTHER -> st

\* for (const op of operations): an exception ends the loop
RECURSIVE applyOps(_, _, _, _)
applyOps(st, res, operations, k) ==
    IF k > Len(operations) \/ st.threw THEN st
    ELSE applyOps(applyOp(st, res, operations[k]), res, operations, k + 1)

\* const result = structuredClone(layout), before the loop
cloneLayout(h, lay) ==
    LET cl == structuredClone(h, Top(h), lay)
    IN  [st |-> [heap |-> cl.heap, top |-> cl.top, threw |-> FALSE], res |-> cl.addr]

applyEdits(h, lay, operations) ==
    LET start == cloneLayout(h, lay)
        st == applyOps(start.st, start.res, operations, 1)
    IN  [heap |-> st.heap, result |-> start.res, threw |-> st.threw]

\* ------------------------------------------------------------------------
\* The value an object stands for (what JSON.stringify would show): used to
\* compare layouts structurally, whatever the addresses of their objects.
\* ------------------------------------------------------------------------
valStyle(h, a) ==
    [has |-> h[a].has, fill |-> h[a].fill, fontSize |-> h[a].fontSize,
     gradient |-> IF "gradient" \in h[a].has THEN h[h[a].gradient].angle ELSE 0]

RECURSIVE valComp(_, _)
valComp(h, a) ==
    [id |-> h[a].id, type |-> h[a].type,
     position |-> [x |-> h[h[a].position].x, y |-> h[h[a].position].y],
     size |-> [width |-> h[h[a].size].width, height |-> h[h[a].size].height],
     rotation |-> h[a].rotation, zIndex |-> h[a].zIndex,
     content |-> h[a].content,
     style |-> valStyle(h, h[a].style),
     children |-> IF h[a].children = 0 THEN <<>>
                  ELSE [k \in 1..Len(h[h[a].children].items) |->
                            valComp(h, h[h[a].children].items[k])]]

valLayer(h, a) ==
    [id |-> h[a].id, visible |-> h[a].visible, locked |-> h[a].locked,
     componentIds |-> h[h[a].componentIds].items]

valLayout(h, a) ==
    [id |-> h[a].id, canvasWidth |-> h[a].canvasWidth,
     canvasHeight |-> h[a].canvasHeight, background |-> h[a].background,
     components |-> [k \in 1..Len(h[h[a].components].items) |->
                        valComp(h, h[h[a].components].items[k])],
     layers |-> [k \in 1..Len(h[h[a].layers].items) |->
                        valLayer(h, h[h[a].layers].items[k])]]

\* ------------------------------------------------------------------------
\* JSON.parse gives a tree of values: null, numbers, strings (sequences of
\* characters), booleans, arrays and objects.  undefined is what a read of a
\* missing property gives and what the repair assigns to fontWeight.
\* ------------------------------------------------------------------------
JNull == [t |-> "null"]
JUndefined == [t |-> "undefined"]
JNum(n) == [t |-> "number", n |-> n]
\* the number n + 1/2
JFrac(n) == [t |-> "number", n |-> n, frac |-> TRUE]
isInteger(v) == v.t = "number" /\ "frac" \notin DOMAIN v
JStr(s) == [t |-> "string", s |-> s]
JBool(b) == [t |-> "boolean", b |-> b]
JArr(items) == [t |-> "array", items |-> items, f |-> << >>]
JObj(f) == [t |-> "object", f |-> f]

\* typeof v
typeOf(v) == IF v.t \in {"null", "array", "object"} THEN "object" ELSE v.t

\* Array.isArray(v)
isArray(v) == v.t = "array"

\* the value of v in a condition (!v is its negation)
truthy(v) ==
    CASE v.t \in {"null", "undefined"} -> FALSE
      [] v.t = "number" -> v.n # 0
      [] v.t = "string" -> v.s # << >>
      [] v.t = "boolean" -> v.b
      [] OTHER -> TRUE

isNullish(v) == v.t \in {"null", "undefined"}
hasProps(v) == v.t \in {"array", "object"}

\* v.k, for v not null or undefined: undefined when v has no such property
get(v, k) == IF hasProps(v) /\ k \in DOMAIN v.f THEN v.f[k] ELSE JUndefined

\* v.k = x, for v an object or an array
put(v, k, x) == [v EXCEPT !.f = (k :> x) @@ @]

\* delete v.k
del(v, k) == [v EXCEPT !.f = [j \in DOMAIN @ \ {k} |-> @[j]]]

\* parseInt(s, 10): leading blanks, a sign, then the longest run of digits;
\* NaN when there is no digit
Digits == <<"0", "1", "2", "3", "4", "5", "6", "7", "8", "9">>
isDigit(c) == \E d \in 1..10 : Digits[d] = c
digitVal(c) == (CHOOSE d \in 1..10 : Digits[d] = c) - 1

RECURSIVE skipBlanks(_)
skipBlanks(s) == IF s # << >> /\ s[1] = " " THEN skipBlanks(Tail(s)) ELSE s

RECURSIVE digitRun(_, _, _)
digitRun(s, acc, any) ==
    IF s # << >> /\ isDigit(s[1])
    THEN digitRun(Tail(s), 10 * acc + digitVal(s[1]), TRUE)
    ELSE [nan |-> ~ any, n |-> acc]

parseInt(str) ==
    LET s == skipBlanks(str)
        neg == s # << >> /\ s[1] = "-"
        signed == s # << >> /\ s[1] \in {"-", "+"}
        r == digitRun(IF signed THEN Tail(s) ELSE s, 0, FALSE)
    IN  [nan |-> r.nan, n |-> IF neg THEN 0 - r.n ELSE r.n]

\* ------------------------------------------------------------------------
\* The repair loop of the generate-layout route (inline version) and
\* repairResponse of the edit-layout route.  A repair gives the tree as it
\* leaves it and whether it raised a TypeError.
\* ------------------------------------------------------------------------
\* if (typeof comp.zIndex === "number" && comp.zIndex < 0) comp.zIndex = 0
clampZIndex(comp) ==
    IF typeOf(get(comp, "zIndex")) = "number" /\ get(comp, "zIndex").n < 0
    THEN put(comp, "zIndex", JNum(0))
    ELSE comp

\* if (!comp.style) comp.style = {}
backfillStyle(comp) ==
    IF ~ truthy(get(comp, "style")) THEN put(comp, "style", JObj(<< >>)) ELSE comp

\* comp.style.fontWeight = isNaN(n) ? undefined : n, for a string fontWeight
coerceFontWeight(style) ==
    IF typeOf(get(style, "fontWeight")) = "string"
    THEN LET r == parseInt(get(style, "fontWeight").s)
         IN  put(style, "fontWeight", IF r.nan THEN JUndefined ELSE JNum(r.n))
    ELSE style

\* if (typeof style.shadow === "string") delete style.shadow
dropShadowString(style) ==
    IF typeOf(get(style, "shadow")) = "string" THEN del(style, "shadow") ELSE style

\* the filter on the entries of shadows
validShadow(sh) ==
    /\ truthy(sh)
    /\ typeOf(sh) = "object"
    /\ typeOf(get(sh, "x")) = "number"
    /\ typeOf(get(sh, "y")) = "number"
    /\ typeOf(get(sh, "blur")) = "number"
    /\ typeOf(get(sh, "color")) = "string"

\* if (style.shadows !== undefined) { string: delete; array: filter, and
\* delete when nothing is left; anything else: delete }
sanitizeShadows(style) ==
    LET shadows == get(style, "shadows")
    IN  IF shadows.t = "undefined" THEN style
        ELSE IF typeOf(shadows) = "string" THEN del(style, "shadows")
        ELSE IF isArray(shadows)
        THEN LET kept == SelectSeq(shadows.items, validShadow)
             IN  IF Len(kept) = 0 THEN del(style, "shadows")
                 ELSE put(style, "shadows", JArr(kept))
        ELSE del(style, "shadows")

\* if (typeof child.style.shadows === "string") delete child.style.shadows
dropShadowsString(style) ==
    IF typeOf(get(style, "shadows")) = "string" THEN del(style, "shadows") ELSE style

\* textTransform outside the four values is deleted (repairResponse only)
TextTransforms == { <<"u","p","p","e","r","c","a","s","e">>,
                    <<"l","o","w","e","r","c","a","s","e">>,
                    <<"c","a","p","i","t","a","l","i","z","e">>,
                    <<"n","o","n","e">> }
dropTextTransform(style) ==
    LET tt == get(style, "textTransform")
    IN  IF tt.t # "undefined" /\ ~ (tt.t = "string" /\ tt.s \in TextTransforms)
        THEN del(style, "textTransform")
        ELSE style

\* a read of comp.zIndex or comp.style on null raises a TypeError, and so
\* does comp.style = {} on a number, a string or a boolean (the routes are ES
\* modules: strict mode)
entryThrows(comp) ==
    \/ isNullish(comp)
    \/ ~ hasProps(comp) /\ ~ truthy(get(comp, "style"))

\* the statements on comp.style; a style that is a truthy primitive has no
\* fontWeight, shadow or shadows and is left as it is
withStyle(comp, style) == IF hasProps(style) THEN put(comp, "style", style) ELSE comp

\* the body of the inner loop: for (const child of comp.children)
repairChild(child) ==
    LET c1 == backfillStyle(clampZIndex(child))
    IN  withStyle(c1, dropShadowsString(dropShadowString(
                        coerceFontWeight(get(c1, "style")))))

RECURSIVE repairChildEntries(_)
repairChildEntries(items) ==
    IF items = << >> THEN [items |-> << >>, threw |-> FALSE]
    ELSE IF entryThrows(items[1]) THEN [items |-> items, threw |-> TRUE]
    ELSE LET rest == repairChildEntries(Tail(items))
         IN  [items |-> <<repairChild(items[1])>> \o rest.items, threw |-> rest.threw]

\* the body of the outer loop: for (const comp of parsed.components)
repairEntry(comp) ==
    LET c1 == backfillStyle(clampZIndex(comp))
        c2 == withStyle(c1, sanitizeShadows(dropShadowString(
                                coerceFontWeight(get(c1, "style")))))
        children == get(c2, "children")
    IN  IF isArray(children)
        THEN LET r == repairChildEntries(children.items)
             IN  [v |-> put(c2, "children", [children EXCEPT !.items = r.items]),
                  threw |-> r.threw]
        ELSE [v |-> c2, threw |-> FALSE]

\* the outer loop: the entries before the first one that throws are
\* repaired, the loop ends there
repairEntries(items) ==
    LET throws(k) == IF entryThrows(items[k]) THEN TRUE ELSE repairEntry(items[k]).threw
        bad == {k \in 1..Len(items) : throws(k)}
        stop == IF bad = {} THEN Len(items) + 1
                ELSE CHOOSE k \in bad : \A j \in bad : k <= j
    IN  [items |-> [k \in 1..Len(items) |->
                        IF k < stop THEN repairEntry(items[k]).v ELSE items[k]],
         threw |-> bad # {}]

\* if (Array.isArray(parsed.components)) { ... }: parsed.components on null
\* raises a TypeError
repairInline(parsed) ==
    IF isNullish(parsed) THEN [v |-> parsed, threw |-> TRUE]
    ELSE LET components == get(parsed, "components")
         IN  IF isArray(components)
             THEN LET r == repairEntries(components.items)
                  IN  [v |-> put(parsed, "components",
                                 [components EXCEPT !.items = r.items]),
                       threw |-> r.threw]
             ELSE [v |-> parsed, threw |-> FALSE]

\* repairResponse(parsed, dimensions, bgColor) of the edit-layout route.
\* Date.now() is the time of the call: one fixed time here.
RegenerateMode == <<"r","e","g","e","n","e","r","a","t","e">>
NowId == <<"l","a","y","o","u","t","-","1">>
Dimensions == [width |-> 400, height |-> 300]
BgColor == <<"#","f","f","f">>

fillEnvelope(lay) ==
    LET l1 == IF ~ truthy(get(lay, "id"))
              THEN put(lay, "id", JStr(NowId)) ELSE lay
        l2 == IF ~ truthy(get(l1, "canvasWidth"))
              THEN put(l1, "canvasWidth", JNum(Dimensions.width)) ELSE l1
        l3 == IF ~ truthy(get(l2, "canvasHeight"))
              THEN put(l2, "canvasHeight", JNum(Dimensions.height)) ELSE l2
    IN  IF ~ truthy(get(l3, "background"))
        THEN put(l3, "background",
                 JObj(("type" :> JStr(<<"s","o","l","i","d">>))
                      @@ ("value" :> JStr(BgColor))))
        ELSE l3

\* layout.components.map((c) => c.id).filter(Boolean)
RECURSIVE truthyIds(_)
truthyIds(items) ==
    IF items = << >> THEN << >>
    ELSE (IF truthy(get(items[1], "id")) THEN <<get(items[1], "id")>> ELSE << >>)
         \o truthyIds(Tail(items))

mainLayer(components) ==
    JObj(("id" :> JStr(<<"m","a","i","n">>))
         @@ ("name" :> JStr(<<"M","a","i","n">>))
         @@ ("visible" :> JBool(TRUE))
         @@ ("locked" :> JBool(FALSE))
         @@ ("componentIds" :> JArr(truthyIds(components.items))))

\* the body of the loop of repairResponse: no zIndex clamp, no children
repairResponseEntry(comp) ==
    LET c1 == backfillStyle(comp)
    IN  withStyle(c1, dropTextTransform(sanitizeShadows(dropShadowString(
                        coerceFontWeight(get(c1, "style"))))))

repairResponseEntries(items) ==
    LET bad == {k \in 1..Len(items) : entryThrows(items[k])}
        stop == IF bad = {} THEN Len(items) + 1
                ELSE CHOOSE k \in bad : \A j \in bad : k <= j
    IN  [items |-> [k \in 1..Len(items) |->
                        IF k < stop THEN repairResponseEntry(items[k]) ELSE items[k]],
         threw |-> bad # {}]

repairResponse(parsed) ==
    IF isNullish(parsed) THEN [v |-> parsed, threw |-> TRUE]
    ELSE IF \/ ~ (get(parsed, "mode").t = "string"
                  /\ get(parsed, "mode").s = RegenerateMode)
            \/ ~ truthy(get(parsed, "layout"))
    THEN [v |-> parsed, threw |-> FALSE]
    ELSE LET lay == get(parsed, "layout")
         IN  IF ~ hasProps(lay) THEN [v |-> parsed, threw |-> TRUE]
             ELSE
             LET l4 == fillEnvelope(lay)
                 components == get(l4, "components")
                 needsLayers == ~ truthy(get(l4, "layers")) /\ isArray(components)
             IN  IF needsLayers /\ \E k \in 1..Len(components.items) :
                                        isNullish(components.items[k])
                 THEN [v |-> parsed, threw |-> TRUE]
                 ELSE
                 LET l5 == IF needsLayers
                           THEN put(l4, "layers", JArr(<<mainLayer(components)>>))
                           ELSE l4
                 IN  IF isArray(components)
                     THEN LET r == repairResponseEntries(components.items)
                          IN  [v |-> put(parsed, "layout",
                                         put(l5, "components",
                                             [components EXCEPT !.items = r.items])),
                               threw |-> r.threw]
                     ELSE [v |-> put(parsed, "layout", l5), threw |-> FALSE]

\* ------------------------------------------------------------------------
\* LayoutSpecSchema.parse: the issues zod reports, each with the chain of
\* indexes that leads to the component (components[i].children[j]...), the
\* field and zod's code.  No issue: the tree is accepted.
\* ------------------------------------------------------------------------
KnownTypes ==
    { <<"t","e","x","t">>,
      <<"s","h","a","p","e">>,
      <<"i","c","o","n">>,
      <<"i","m","a","g","e","-","p","l","a","c","e","h","o","l","d","e","r">>,
      <<"b","u","t","t","o","n">>,
      <<"c","a","r","d">>,
      <<"c","o","n","t","a","i","n","e","r">>,
      <<"a","v","a","t","a","r">>,
      <<"b","a","d","g","e">>,
      <<"d","i","v","i","d","e","r">>,
      <<"i","n","p","u","t","-","f","i","e","l","d">> }

MaxComponents == 50

issue(at, field, code) == [at |-> at, field |-> field, code |-> code]

numberIssues(v, optional, at, field) ==
    IF v.t = "undefined" /\ optional THEN {}
    ELSE IF v.t # "number" THEN {issue(at, field, "invalid_type")}
    ELSE {}

minIssuesNone(v, lo, at, field) == {}
minIssues(v, lo, at, field) ==
    IF v.t = "number" /\ v.n < lo THEN {issue(at, field, "too_small")} ELSE {}

maxIssues(v, hi, at, field) ==
    IF v.t = "number" /\ v.n > hi THEN {issue(at, field, "too_big")} ELSE {}

\* .int()
intIssues(v, at, field) ==
    IF v.t = "number" /\ ~ isInteger(v) THEN {issue(at, field, "invalid_type")} ELSE {}

stringIssues(v, optional, at, field) ==
    IF v.t = "undefined" /\ optional THEN {}
    ELSE IF v.t # "string" THEN {issue(at, field, "invalid_type")}
    ELSE {}

\* ComponentStyleSchema (the keys the inputs use)
styleIssues(st, at) ==
    IF st.t # "object" THEN {issue(at, "style", "invalid_type")}
    ELSE LET shadow == get(st, "shadow")
         IN  stringIssues(get(st, "fill"), TRUE, at, "style.fill")
             \cup numberIssues(get(st, "fontSize"), TRUE, at, "style.fontSize")
             \cup minIssues(get(st, "fontSize"), 8, at, "style.fontSize")
             \cup maxIssues(get(st, "fontSize"), 200, at, "style.fontSize")
             \cup numberIssues(get(st, "fontWeight"), TRUE, at, "style.fontWeight")
             \cup minIssues(get(st, "fontWeight"), 100, at, "style.fontWeight")
             \cup maxIssues(get(st, "fontWeight"), 900, at, "style.fontWeight")
             \cup (IF shadow.t = "undefined" THEN {}
                   ELSE IF shadow.t # "object"
                   THEN {issue(at, "style.shadow", "invalid_type")}
                   ELSE numberIssues(get(shadow, "x"), FALSE, at, "style.shadow.x")
                        \cup numberIssues(get(shadow, "y"), FALSE, at, "style.shadow.y")
                        \cup numberIssues(get(shadow, "blur"), FALSE, at,
                                          "style.shadow.blur")
                        \cup minIssues(get(shadow, "blur"), 0, at, "style.shadow.blur")
                        \cup stringIssues(get(shadow, "color"), FALSE, at,
                                          "style.shadow.color"))

\* ComponentSpecSchema, recursive over children
RECURSIVE componentIssues(_, _)
componentIssues(c, at) ==
    IF c.t # "object" THEN {issue(at, "", "invalid_type")}
    ELSE LET type == get(c, "type")
             position == get(c, "position")
             size == get(c, "size")
             children == get(c, "children")
         IN  stringIssues(get(c, "id"), FALSE, at, "id")
             \cup (IF type.t # "string" THEN {issue(at, "type", "invalid_type")}
                   ELSE IF type.s \notin KnownTypes
                   THEN {issue(at, "type", "invalid_enum_value")}
                   ELSE {})
             \cup (IF position.t # "object"
                   THEN {issue(at, "position", "invalid_type")}
                   ELSE numberIssues(get(position, "x"), FALSE, at, "position.x")
                        \cup numberIssues(get(position, "y"), FALSE, at, "position.y"))
             \cup (IF size.t # "object" THEN {issue(at, "size", "invalid_type")}
                   ELSE numberIssues(get(size, "width"), FALSE, at, "size.width")
                        \cup minIssues(get(size, "width"), 1, at, "size.width")
                        \cup numberIssues(get(size, "height"), FALSE, at, "size.height")
                        \cup minIssues(get(size, "height"), 1, at, "size.height"))
             \cup numberIssues(get(c, "rotation"), TRUE, at, "rotation")
             \cup numberIssues(get(c, "zIndex"), TRUE, at, "zIndex")
             \cup intIssues(get(c, "zIndex"), at, "zIndex")
             \cup minIssues(get(c, "zIndex"), 0, at, "zIndex")
             \cup styleIssues(get(c, "style"), at)
             \cup (IF children.t = "undefined" THEN {}
                   ELSE IF children.t # "array"
                   THEN {issue(at, "children", "invalid_type")}
                   ELSE UNION { componentIssues(children.items[k], Append(at, k)) :
                                    k \in 1..Len(children.items) })
             \cup stringIssues(get(c, "content"), TRUE, at, "content")

\* LayerSpecSchema
layerIssues(l, m) ==
    IF l.t # "object" THEN {issue(<<m>>, "layers", "invalid_type")}
    ELSE stringIssues(get(l, "id"), FALSE, <<m>>, "layers.id")
         \cup stringIssues(get(l, "name"), FALSE, <<m>>, "layers.name")
         \cup (IF get(l, "componentIds").t # "array"
               THEN {issue(<<m>>, "layers.componentIds", "invalid_type")}
               ELSE UNION { stringIssues(get(l, "componentIds").items[k], FALSE,
                                         <<m, k>>, "layers.componentIds") :
                                k \in 1..Len(get(l, "componentIds").items) })

\* LayoutSpecSchema
layoutIssues(l) ==
    IF l.t # "object" THEN {issue(<< >>, "", "invalid_type")}
    ELSE LET background == get(l, "background")
             components == get(l, "components")
             layers == get(l, "layers")
         IN  stringIssues(get(l, "id"), FALSE, << >>, "id")
             \cup numberIssues(get(l, "canvasWidth"), FALSE, << >>, "canvasWidth")
             \cup numberIssues(get(l, "canvasHeight"), FALSE, << >>, "canvasHeight")
             \cup (IF background.t # "object"
                   THEN {issue(<< >>, "background", "invalid_type")}
                   ELSE stringIssues(get(background, "type"), FALSE, << >>,
                                     "background.type")
                        \cup stringIssues(get(background, "value"), FALSE, << >>,
                                          "background.value"))
             \cup (IF components.t # "array"
                   THEN {issue(<< >>, "components", "invalid_type")}
                   ELSE (IF Len(components.items) > MaxComponents
                         THEN {issue(<< >>, "components", "too_big")} ELSE {})
                        \cup UNION { componentIssues(components.items[k], <<k>>) :
                                        k \in 1..Len(components.items) })
             \cup (IF layers.t # "array" THEN {issue(<< >>, "layers", "invalid_type")}
                   ELSE UNION { layerIssues(layers.items[m], m) :
                                    m \in 1..Len(layers.items) })

\* ------------------------------------------------------------------------
\* repairComponents(parsed) of app/lib/repair-components.ts, which the
\* generate-layout route calls (route.ts line 67) and which is not among the
\* sources: its rules are those of the Repair Pass of the specification.
\* ------------------------------------------------------------------------
Upper == <<"A","B","C","D","E","F","G","H","I","J","K","L","M",
           "N","O","P","Q","R","S","T","U","V","W","X","Y","Z">>
Lower == <<"a","b","c","d","e","f","g","h","i","j","k","l","m",
           "n","o","p","q","r","s","t","u","v","w","x","y","z">>

toLowerCase(s) ==
    [k \in 1..Len(s) |->
        IF \E u \in 1..26 : Upper[u] = s[k]
        THEN Lower[CHOOSE u \in 1..26 : Upper[u] = s[k]]
        ELSE s[k]]

\* s.includes(kw)
includes(s, kw) ==
    \E i \in 0..(Len(s) - Len(kw)) : SubSeq(s, i + 1, i + Len(kw)) = kw

includesAny(s, kws) == \E k \in 1..Len(kws) : includes(s, kws[k])

TextWords == <<<<"h","e","a","d","i","n","g">>, <<"p","a","r","a","g","r","a","p","h">>, <<"l","a","b","e","l">>, <<"t","i","t","l","e">>>>
ImageWords == <<<<"i","m","a","g","e">>, <<"i","m","g">>, <<"p","h","o","t","o">>>>
DividerWords == <<<<"l","i","n","e">>, <<"s","e","p","a","r","a","t","o","r">>, <<"h","r">>>>
ContainerWords == <<<<"l","i","s","t">>, <<"s","e","c","t","i","o","n">>, <<"g","r","o","u","p">>, <<"n","a","v">>, <<"h","e","a","d","e","r">>, <<"f","o","o","t","e","r">>>>

\* the rules in the order the specification lists them; the first that
\* matches decides
coerceType(type) ==
    LET t == toLowerCase(type)
    IN  IF type \in KnownTypes THEN type
        ELSE IF includesAny(t, TextWords) THEN <<"t","e","x","t">>
        ELSE IF includesAny(t, ImageWords) THEN <<"i","m","a","g","e","-","p","l","a","c","e","h","o","l","d","e","r">>
        ELSE IF includesAny(t, DividerWords) THEN <<"d","i","v","i","d","e","r">>
        ELSE IF includesAny(t, ContainerWords) THEN <<"c","o","n","t","a","i","n","e","r">>
        ELSE <<"s","h","a","p","e">>

\* type coercion of a component (a type that is not a string is left for
\* the validator)
coerceTypeOf(comp) ==
    IF get(comp, "type").t = "string"
    THEN put(comp, "type", JStr(coerceType(get(comp, "type").s)))
    ELSE comp

\* fontWeight coercion: an unparsable string drops the field entirely
dropFontWeight(style) ==
    IF typeOf(get(style, "fontWeight")) = "string"
    THEN LET r == parseInt(get(style, "fontWeight").s)
         IN  IF r.nan THEN del(style, "fontWeight")
             ELSE put(style, "fontWeight", JNum(r.n))
    ELSE style

\* children are filtered to the objects with a type field
isTypedObject(c) == c.t = "object" /\ "type" \in DOMAIN c.f

\* the repairs of one component, then of its children, at every depth
RECURSIVE repairComponent(_)
repairComponent(comp) ==
    LET c1 == backfillStyle(clampZIndex(coerceTypeOf(comp)))
        c2 == withStyle(c1, sanitizeShadows(dropShadowString(
                                dropFontWeight(get(c1, "style")))))
        children == get(c2, "children")
    IN  IF isArray(children)
        THEN LET kept == SelectSeq(children.items, isTypedObject)
             IN  IF kept = << >> THEN del(c2, "children")
                 ELSE put(c2, "children",
                          JArr([k \in 1..Len(kept) |-> repairComponent(kept[k])]))
        ELSE c2

\* it never throws: what is not an object with a components array, and an
\* entry that is not an object, are left for the validator
repairComponents(parsed) ==
    IF hasProps(parsed) /\ isArray(get(parsed, "components"))
    THEN [v |-> put(parsed, "components",
                    JArr([k \in 1..Len(get(parsed, "components").items) |->
                            LET comp == get(parsed, "components").items[k]
                            IN  IF comp.t = "object" THEN repairComponent(comp)
                                ELSE comp])),
          threw |-> FALSE]
    ELSE [v |-> parsed, threw |-> FALSE]

\* ------------------------------------------------------------------------
\* Inputs: validated Layouts (size >= 1, integer zIndex >= 0, any position)
\* ------------------------------------------------------------------------
Ids == <<"a", "b", "c", "d", "e">>

\* <<x, y, width, height>> on the small canvas
Geometries ==
    { <<0, 0, 8, 8>>, <<4, 4, 8, 8>>, <<2, -3, 6, 6>>, <<0, 12, 8, 16>>,
      <<0, 0, 8, 4>>, <<0, 0, 8, 16>>, <<12, 30, 8, 8>>, <<0, 0, 20, 8>> }

\* zIndex values, with a gap between them
ZValues == {0, 2}

SmallCanvas == [w |-> 16, h |-> 32]

\* a nested child, off the grid and outside the small canvas
NestedChild ==
    [id |-> "x", type |-> "text",
     position |-> [x |-> 3, y |-> -5],
     size |-> [width |-> 30, height |-> 6],
     rotation |-> 0, zIndex |-> 0,
     style |-> [fontSize |-> 12], content |-> "x"]

mkComp(id, g, z) ==
    [id |-> id, type |-> "shape",
     position |-> [x |-> g[1], y |-> g[2]],
     size |-> [width |-> g[3], height |-> g[4]],
     rotation |-> 0, zIndex |-> z,
     style |-> [fill |-> "#ccc"], content |-> id,
     children |-> <<NestedChild>>]

mkLayout(cv, comps) ==
    [id |-> "layout", canvasWidth |-> cv.w, canvasHeight |-> cv.h,
     background |-> "solid", components |-> comps, layers |-> <<>>]

\* every geometry at the lower zIndex, two of them also at the higher one
CompChoices ==
    (Geometries \X {0}) \cup ({ <<0, 0, 8, 8>>, <<0, 12, 8, 16>> } \X (ZValues \ {0}))

smallLayout(n, f) ==
    mkLayout(SmallCanvas, [k \in 1..n |-> mkComp(Ids[k], f[k][1], f[k][2])])

\* canvas presets the scenarios of the specification are run on
ScenarioCanvases == { [w |-> 400, h |-> 300], [w |-> 1440, h |-> 900] }

ScenarioB(cv) ==
    mkLayout(cv, << mkComp("a", <<0, 0, 100, 100>>, 0),
                    mkComp("b", <<90, 90, 100, 100>>, 0) >>)

ScenarioC(cv) ==
    mkLayout(cv, << mkComp("a", <<0, 0, 100, 100>>, 0),
                    mkComp("b", <<20, 20, 100, 100>>, 0) >>)

ScenarioLayouts ==
    { ScenarioB(cv) : cv \in ScenarioCanvases } \cup
    { ScenarioC(cv) : cv \in ScenarioCanvases }

None == [id |-> "none", canvasWidth |-> 0, canvasHeight |-> 0,
         background |-> "solid", components |-> <<>>, layers |-> <<>>]

\* ------------------------------------------------------------------------
\* Inputs of applyEdits: a Layout and a batch of operations, as parsed from
\* JSON (two separate object trees on the heap)
\* ------------------------------------------------------------------------
EmptyHeap == [a \in {} |-> 0]

\* content: undefined
Undefined == "undefined"

NoStyle == [has |-> {}, fill |-> "", fontSize |-> 0, angle |-> 0]

styleCells(base, sd) ==
    (base :> [kind |-> "style", has |-> sd.has, fill |-> sd.fill,
              fontSize |-> sd.fontSize,
              gradient |-> IF "gradient" \in sd.has THEN base + 1 ELSE 0])
    @@ (IF "gradient" \in sd.has
        THEN (base + 1) :> [kind |-> "gradient", angle |-> sd.angle]
        ELSE EmptyHeap)

\* a component without children: cells base .. base + 4
leafCells(base, d) ==
    (base :> [kind |-> "comp", id |-> d.id, type |-> d.type, rotation |-> 0,
              zIndex |-> d.z, content |-> d.content,
              position |-> base + 1, size |-> base + 2, style |-> base + 3,
              children |-> 0])
    @@ ((base + 1) :> [kind |-> "point", x |-> d.x, y |-> d.y])
    @@ ((base + 2) :> [kind |-> "size", width |-> d.w, height |-> d.h])
    @@ styleCells(base + 3, d.style)

\* a component with at most one child: cells base .. base + 10
compCells(base, d) ==
    IF d.child = "" THEN leafCells(base, d)
    ELSE [leafCells(base, d) EXCEPT ![base].children = base + 5]
         @@ ((base + 5) :> [kind |-> "list", items |-> <<base + 6>>])
         @@ leafCells(base + 6,
                [id |-> d.child, type |-> "text", x |-> d.x + 1, y |-> d.y + 1,
                 w |-> 2, h |-> 2, z |-> 0, content |-> "child",
                 style |-> NoStyle])

layerCells(base, ld) ==
    (base :> [kind |-> "layer", id |-> ld.id, visible |-> TRUE, locked |-> FALSE,
              componentIds |-> base + 1])
    @@ ((base + 1) :> [kind |-> "ids", items |-> ld.componentIds])

\* component k of a Layout at 20k, layer m at 2 + 2m
RECURSIVE compSeqCells(_, _)
compSeqCells(descs, k) ==
    IF k > Len(descs) THEN EmptyHeap
    ELSE compCells(20 * k, descs[k]) @@ compSeqCells(descs, k + 1)

RECURSIVE layerSeqCells(_, _)
layerSeqCells(descs, m) ==
    IF m > Len(descs) THEN EmptyHeap
    ELSE layerCells(2 + 2 * m, descs[m]) @@ layerSeqCells(descs, m + 1)

\* the Layout: object 1, its components array 2, its layers array 3, layer m
\* at 2 + 2m, component k at 20k
layoutCells(comps, layers) ==
    (1 :> [kind |-> "layout", id |-> "layout", canvasWidth |-> 16,
           canvasHeight |-> 32, background |-> "solid",
           components |-> 2, layers |-> 3])
    @@ (2 :> [kind |-> "list", items |-> [k \in 1..Len(comps) |-> 20 * k]])
    @@ (3 :> [kind |-> "list", items |-> [m \in 1..Len(layers) |-> 2 + 2 * m]])
    @@ layerSeqCells(layers, 1)
    @@ compSeqCells(comps, 1)

CompA == [id |-> "a", type |-> "card", x |-> 0, y |-> 0, w |-> 8, h |-> 8, z |-> 1,
          content |-> Undefined, child |-> "x",
          style |-> [has |-> {"fill", "gradient"}, fill |-> "#fff",
                     fontSize |-> 0, angle |-> 90]]

CompB == [id |-> "b", type |-> "text", x |-> 4, y |-> 4, w |-> 8, h |-> 8, z |-> 3,
          content |-> "B", child |-> "",
          style |-> [has |-> {"fontSize"}, fill |-> "", fontSize |-> 12, angle |-> 0]]

\* the component an add operation brings
CompN == [id |-> "n", type |-> "button", x |-> 2, y |-> 2, w |-> 4, h |-> 4, z |-> 2,
          content |-> "new", child |-> "y",
          style |-> [has |-> {"gradient"}, fill |-> "", fontSize |-> 0, angle |-> 30]]

\* a second component with the id of CompA
CompA2 == [CompN EXCEPT !.id = "a", !.child = ""]

\* zero, one and two layers; in the last, both layers list "a"
LayerChoices ==
    << <<>>,
       << [id |-> "l1", componentIds |-> <<"a", "b">>] >>,
       << [id |-> "l1", componentIds |-> <<"a">>],
          [id |-> "l2", componentIds |-> <<"b", "a">>] >> >>

NoChanges == [has |-> {}, rotation |-> 0, zIndex |-> 0, content |-> "",
              pos |-> [x |-> 0, y |-> 0], size |-> [width |-> 1, height |-> 1],
              style |-> NoStyle]

ChgGeometry == [NoChanges EXCEPT !.has = {"position", "size"},
                    !.pos = [x |-> 8, y |-> 4], !.size = [width |-> 6, height |-> 6]]
ChgFontSize == [NoChanges EXCEPT !.has = {"style"},
                    !.style = [has |-> {"fontSize"}, fill |-> "", fontSize |-> 20,
                               angle |-> 0]]
ChgMany == [NoChanges EXCEPT !.has = {"rotation", "zIndex", "content", "style"},
                    !.rotation = 90, !.zIndex = 7, !.content = "hi",
                    !.style = [has |-> {"fill", "gradient"}, fill |-> "#000",
                               fontSize |-> 0, angle |-> 45]]

opDesc(action, id, chg, comp, z) ==
    [action |-> action, componentId |-> id, chg |-> chg, comp |-> comp, newZIndex |-> z]

\* operations accepted by EditInstructionSchema; "x" and "y" are ids of nested
\* children, "n" is the id of no component until an add brings one
OpChoices ==
    << opDesc("modify", "a", ChgGeometry, CompN, 0),
       opDesc("modify", "a", ChgFontSize, CompN, 0),
       opDesc("modify", "b", ChgMany, CompN, 0),
       opDesc("modify", "x", ChgMany, CompN, 0),
       opDesc("modify", "n", ChgFontSize, CompN, 0),
       opDesc("add", "", NoChanges, CompN, 0),
       opDesc("add", "", NoChanges, CompA2, 0),
       opDesc("remove", "a", NoChanges, CompN, 0),
       opDesc("remove", "x", NoChanges, CompN, 0),
       opDesc("remove", "n", NoChanges, CompN, 0),
       opDesc("reorder", "b", NoChanges, CompN, 5),
       opDesc("reorder", "x", NoChanges, CompN, 5),
       opDesc("reorder", "a", NoChanges, CompN, -1) >>

\* the objects of operation k: its changes at 100k (position, size, style
\* after it), its component at 100k + 10
changesCells(base, chg) ==
    (base :> [kind |-> "changes", has |-> chg.has, rotation |-> chg.rotation,
              zIndex |-> chg.zIndex, content |-> chg.content,
              position |-> IF "position" \in chg.has THEN base + 1 ELSE 0,
              size |-> IF "size" \in chg.has THEN base + 2 ELSE 0,
              style |-> IF "style" \in chg.has THEN base + 3 ELSE 0])
    @@ (IF "position" \in chg.has
        THEN (base + 1) :> [kind |-> "point", x |-> chg.pos.x, y |-> chg.pos.y]
        ELSE EmptyHeap)
    @@ (IF "size" \in chg.has
        THEN (base + 2) :> [kind |-> "size", width |-> chg.size.width,
                            height |-> chg.size.height]
        ELSE EmptyHeap)
    @@ (IF "style" \in chg.has THEN styleCells(base + 3, chg.style) ELSE EmptyHeap)

opCells(base, od) ==
    CASE od.action = "modify" -> changesCells(base, od.chg)
      [] od.action = "add"    -> compCells(base + 10, od.comp)
      [] OTHER -> EmptyHeap

RECURSIVE opSeqCells(_, _)
opSeqCells(descs, k) ==
    IF k > Len(descs) THEN EmptyHeap
    ELSE opCells(100 * k, descs[k]) @@ opSeqCells(descs, k + 1)

opRecord(k, od) ==
    [action |-> od.action, componentId |-> od.componentId,
     changes |-> IF od.action = "modify" THEN 100 * k ELSE 0,
     component |-> IF od.action = "add" THEN 100 * k + 10 ELSE 0,
     newZIndex |-> od.newZIndex]

\* ------------------------------------------------------------------------
\* The layout engine's caller (src/app/editor/page.tsx): the generated layout
\* is processed, and a layout that was processed is processed again after an
\* edit batch.
\* ------------------------------------------------------------------------
EngineIdle ==
    /\ layout = None
    /\ processed = None
    /\ reprocessed = None

EditIdle ==
    /\ heap0 = EmptyHeap
    /\ heap = EmptyHeap
    /\ layoutRef = 0
    /\ ops = <<>>
    /\ resultRef = 0
    /\ threw = FALSE

RepairIdle ==
    /\ rawTree = JNull
    /\ route = "none"
    /\ repaired = JNull
    /\ repairThrew = FALSE
    /\ issues = {}

RenderIdle ==
    /\ gradientCounter = 0
    /\ svgOuts = << >>
    /\ reactOuts = << >>

CanvasIdle ==
    /\ version = 0
    /\ loads = << >>
    /\ canvasObjects = << >>

Init ==
    /\ pc = "start"
    /\ \/ \E n \in 0..MaxComps : \E f \in [1..n -> CompChoices] :
            layout = smallLayout(n, f)
       \/ layout \in ScenarioLayouts
    /\ processed = None
    /\ reprocessed = None
    /\ EditIdle
    /\ RepairIdle
    /\ RenderIdle
    /\ CanvasIdle

ProcessLayout ==
    /\ pc = "start"
    /\ processed' = processLayout(layout)
    /\ pc' = "processed"
    /\ UNCHANGED <<layout, reprocessed>>
    /\ UNCHANGED editVars
    /\ UNCHANGED repairVars
    /\ UNCHANGED renderVars
    /\ UNCHANGED canvasVars

Reprocess ==
    /\ pc = "processed"
    /\ reprocessed' = processLayout(processed)
    /\ pc' = "reprocessed"
    /\ UNCHANGED <<layout, processed>>
    /\ UNCHANGED editVars
    /\ UNCHANGED repairVars
    /\ UNCHANGED renderVars
    /\ UNCHANGED canvasVars

Next == ProcessLayout \/ Reprocess

Spec == Init /\ [][Next]_vars

\* ------------------------------------------------------------------------
\* The diff editor: applyEdits is called on a Layout and a batch of
\* operations; afterwards the caller edits the Layout it got back.
\* ------------------------------------------------------------------------
InitEdit ==
    /\ pc = "ready"
    /\ EngineIdle
    /\ RepairIdle
    /\ RenderIdle
    /\ CanvasIdle
    /\ \E lc \in 1..Len(LayerChoices), n \in 0..MaxOps :
         \E f \in [1..n -> 1..Len(OpChoices)] :
            /\ heap0 = layoutCells(<<CompA, CompB>>, LayerChoices[lc])
                        @@ opSeqCells([k \in 1..n |-> OpChoices[f[k]]], 1)
            /\ ops = [k \in 1..n |-> opRecord(k, OpChoices[f[k]])]
    /\ heap = heap0
    /\ layoutRef = 1
    /\ resultRef = 0
    /\ threw = FALSE

ApplyEdits ==
    /\ pc = "ready"
    /\ LET r == applyEdits(heap, layoutRef, ops)
       IN  /\ heap' = r.heap
           /\ resultRef' = r.result
           /\ threw' = r.threw
    /\ pc' = "edited"
    /\ UNCHANGED <<heap0, layoutRef, ops>>
    /\ UNCHANGED engineVars
    /\ UNCHANGED repairVars
    /\ UNCHANGED renderVars
    /\ UNCHANGED canvasVars

\* a later edit of the returned Layout: every object reachable from it is
\* written to
touch(c) ==
    CASE c.kind = "layout"   -> [c EXCEPT !.canvasWidth = @ + 1]
      [] c.kind = "list"     -> [c EXCEPT !.items = IF @ = <<>> THEN @ ELSE Tail(@)]
      [] c.kind = "ids"      -> [c EXCEPT !.items = Append(@, "later")]
      [] c.kind = "comp"     -> [c EXCEPT !.zIndex = @ + 1]
      [] c.kind = "point"    -> [c EXCEPT !.x = @ + 1]
      [] c.kind = "size"     -> [c EXCEPT !.width = @ + 1]
      [] c.kind = "style"    -> [c EXCEPT !.fill = "later", !.has = @ \cup {"fill"}]
      [] c.kind = "gradient" -> [c EXCEPT !.angle = @ + 1]
      [] c.kind = "layer"    -> [c EXCEPT !.visible = ~ @]
      [] OTHER -> c

LaterEdit ==
    /\ pc = "edited"
    /\ ~ threw
    /\ heap' = [a \in DOMAIN heap |->
                  IF a \in Reach(heap, resultRef) THEN touch(heap[a]) ELSE heap[a]]
    /\ pc' = "touched"
    /\ UNCHANGED <<heap0, layoutRef, ops, resultRef, threw>>
    /\ UNCHANGED engineVars
    /\ UNCHANGED repairVars
    /\ UNCHANGED renderVars
    /\ UNCHANGED canvasVars

NextEdit == ApplyEdits \/ LaterEdit

SpecEdit == InitEdit /\ [][NextEdit]_vars

\* ------------------------------------------------------------------------
\* The routes: the generator's text is parsed, the tree is repaired (by the
\* inline loop, by repairResponse on a regenerate response, or by
\* repairComponents) and LayoutSpecSchema.parse validates it; a TypeError of
\* the repair is caught by the route, which answers with status 500.
\* ------------------------------------------------------------------------
obj1(k1, v1) == JObj(k1 :> v1)
obj2(k1, v1, k2, v2) == JObj((k1 :> v1) @@ (k2 :> v2))

\* a component with the geometry of scenario A
rawComp(id, type, z) ==
    JObj(("id" :> JStr(id)) @@ ("type" :> JStr(type))
         @@ ("position" :> obj2("x", JNum(-10), "y", JNum(5)))
         @@ ("size" :> obj2("width", JNum(100), "height", JNum(20)))
         @@ ("zIndex" :> JNum(z)))

styled(comp, style) == put(comp, "style", style)
parent(comp, children) == put(comp, "children", JArr(children))

GoodShadow ==
    JObj(("x" :> JNum(1)) @@ ("y" :> JNum(1)) @@ ("blur" :> JNum(1))
         @@ ("color" :> JStr(<<"r","e","d">>)))
OtherShadow ==
    JObj(("x" :> JNum(0)) @@ ("y" :> JNum(4)) @@ ("blur" :> JNum(8))
         @@ ("color" :> JStr(<<"r","e","d">>)))
Bogus == JStr(<<"b","o","g","u","s">>)

W700 == obj1("fontWeight", JStr(<<"7","0","0">>))
WBold == obj1("fontWeight", JStr(<<"b","o","l","d">>))

Filled(comp) == styled(comp, obj1("fill", JStr(<<"r","e","d">>)))

\* a child with a negative zIndex and no style, and under it a grandchild
\* with a negative zIndex, a string fontWeight and a string shadow
Grandchild ==
    styled(rawComp(<<"g">>, <<"t","e","x","t">>, -2), obj2("fontWeight", JStr(<<"7","0","0">>), "shadow", JStr(<<"b","o","g","u","s">>)))
Child ==
    parent(rawComp(<<"c">>, <<"h","e","a","d","l","i","n","e","-","t","e","x","t">>, -1), <<Grandchild>>)

\* the entries of components the generator is seen to produce
EntryChoices ==
    << styled(rawComp(<<"a">>, <<"t","e","x","t">>, 2), obj1("fontWeight", JNum(700))),
       styled(rawComp(<<"a">>, <<"h","e","a","d","l","i","n","e","-","t","e","x","t">>, -3), W700),
       rawComp(<<"b">>, <<"h","e","r","o","-","p","h","o","t","o">>, 0),
       styled(rawComp(<<"b">>, <<"n","a","v","b","a","r">>, 1), WBold),
       styled(rawComp(<<"c">>, <<"w","i","d","g","e","t">>, 0), obj1("fontWeight", JBool(TRUE))),
       styled(rawComp(<<"c">>, <<"p","h","o","t","o","-","t","i","t","l","e">>, 0), obj1("fontWeight", JStr(<<" ","4","2","p","x">>))),
       styled(rawComp(<<"d">>, <<"H","e","a","d","i","n","g">>, 0),
              obj2("shadow", JStr(<<"b","o","g","u","s">>),
                   "shadows", JArr(<<GoodShadow, Bogus, obj1("x", JNum(2))>>))),
       styled(rawComp(<<"d">>, <<"t","e","x","t">>, 0),
              obj1("shadows", JArr(<<Bogus, JNull, OtherShadow, GoodShadow>>))),
       styled(rawComp(<<"e">>, <<"t","e","x","t">>, 0), obj1("shadows", JArr(<<Bogus, JNull>>))),
       styled(rawComp(<<"e">>, <<"t","e","x","t">>, 0), obj1("shadows", JStr(<<"b","o","g","u","s">>))),
       styled(rawComp(<<"e">>, <<"t","e","x","t">>, 0), obj2("shadows", GoodShadow, "shadow", GoodShadow)),
       styled(parent(rawComp(<<"p">>, <<"c","a","r","d">>, -1), <<Child>>), W700),
       styled(parent(rawComp(<<"p">>, <<"c","a","r","d">>, 0),
                     <<styled(rawComp(<<"c">>, <<"t","e","x","t">>, 0),
                              obj1("shadows", JArr(<<Bogus, GoodShadow>>)))>>),
              obj1("fill", JStr(<<"r","e","d">>))),
       styled(parent(rawComp(<<"q">>, <<"c","o","n","t","a","i","n","e","r">>, 0),
                     <<JNull, styled(rawComp(<<"c">>, <<"t","e","x","t">>, 0), W700)>>),
              obj1("fill", JStr(<<"r","e","d">>))),
       styled(parent(rawComp(<<"q">>, <<"c","o","n","t","a","i","n","e","r">>, 0),
                     <<Bogus, obj1("id", JStr(<<"n">>))>>),
              obj1("fill", JStr(<<"r","e","d">>))),
       styled(parent(rawComp(<<"q">>, <<"c","o","n","t","a","i","n","e","r">>, 0), << >>), obj1("fill", JStr(<<"r","e","d">>))),
       JNull,
       JNum(5),
       Bogus,
       Filled(put(rawComp(<<"f">>, <<"t","e","x","t">>, 0), "size",
                  obj2("width", JNum(0), "height", JNum(20)))),
       Filled(parent(rawComp(<<"p">>, <<"c","a","r","d">>, 0),
                     <<Filled(put(rawComp(<<"c">>, <<"t","e","x","t">>, 0), "size",
                                  obj2("width", JNum(10), "height", JNum(0))))>>)),
       Filled(put(rawComp(<<"f">>, <<"t","e","x","t">>, 0), "zIndex", JFrac(1))),
       Filled(parent(rawComp(<<"p">>, <<"c","a","r","d">>, 0),
                     <<Filled(put(rawComp(<<"c">>, <<"t","e","x","t">>, 0),
                                  "zIndex", JFrac(0)))>>)),
       Filled(parent(del(rawComp(<<"p">>, <<"c","a","r","d">>, 0), "zIndex"),
                     <<Filled(del(rawComp(<<"c">>, <<"t","e","x","t">>, 0), "zIndex"))>>)) >>

\* the envelope around the components
envelopeOf(components) ==
    JObj(("id" :> JStr(<<"l">>)) @@ ("canvasWidth" :> JNum(400))
         @@ ("canvasHeight" :> JNum(300))
         @@ ("background" :> obj2("type", JStr(<<"s","o","l","i","d">>), "value", JStr(BgColor)))
         @@ ("layers" :> JArr(<< >>))
         @@ ("components" :> components))

\* trees with a missing and with a non-array components field, and without
\* layers
OddTrees ==
    { JNull,
      del(envelopeOf(JNull), "components"),
      envelopeOf(JStr(<<"b","o","g","u","s">>)),
      envelopeOf(JNull),
      del(envelopeOf(JArr(<<EntryChoices[1], EntryChoices[3]>>)), "layers"),
      del(envelopeOf(JArr(<<EntryChoices[1], JNull>>)), "layers"),
      envelopeOf(JArr([k \in 1..(MaxComponents + 1) |->
                        put(EntryChoices[1], "zIndex", JNum(k))])) }

InitRepair ==
    /\ pc = "parsed"
    /\ EngineIdle
    /\ EditIdle
    /\ RenderIdle
    /\ CanvasIdle
    /\ \/ \E n \in 0..MaxEntries : \E f \in [1..n -> 1..Len(EntryChoices)] :
            rawTree = envelopeOf(JArr([k \in 1..n |-> EntryChoices[f[k]]]))
       \/ rawTree \in OddTrees
    /\ route = "none"
    /\ repaired = JNull
    /\ repairThrew = FALSE
    /\ issues = {}

\* generate-layout, inline repair
RepairInline ==
    /\ pc = "parsed"
    /\ LET r == repairInline(rawTree)
       IN  /\ repaired' = r.v
           /\ repairThrew' = r.threw
    /\ route' = "inline"
    /\ pc' = "repaired"
    /\ UNCHANGED <<rawTree, issues>>
    /\ UNCHANGED engineVars
    /\ UNCHANGED editVars
    /\ UNCHANGED renderVars
    /\ UNCHANGED canvasVars

\* edit-layout: the generator answered { mode: "regenerate", layout: raw }
RepairResponse ==
    /\ pc = "parsed"
    /\ LET r == repairResponse(obj2("mode", JStr(RegenerateMode), "layout", rawTree))
       IN  /\ repaired' = get(r.v, "layout")
           /\ repairThrew' = r.threw
    /\ route' = "edit"
    /\ pc' = "repaired"
    /\ UNCHANGED <<rawTree, issues>>
    /\ UNCHANGED engineVars
    /\ UNCHANGED editVars
    /\ UNCHANGED renderVars
    /\ UNCHANGED canvasVars

\* generate-layout, repairComponents(parsed)
RepairComponents ==
    /\ pc = "parsed"
    /\ LET r == repairComponents(rawTree)
       IN  /\ repaired' = r.v
           /\ repairThrew' = r.threw
    /\ route' = "shared"
    /\ pc' = "repaired"
    /\ UNCHANGED <<rawTree, issues>>
    /\ UNCHANGED engineVars
    /\ UNCHANGED editVars
    /\ UNCHANGED renderVars
    /\ UNCHANGED canvasVars

\* const layout = LayoutSpecSchema.parse(parsed)
ValidateLayout ==
    /\ pc = "repaired"
    /\ ~ repairThrew
    /\ route \in {"inline", "shared"}
    /\ issues' = layoutIssues(repaired)
    /\ pc' = IF layoutIssues(repaired) = {} THEN "accepted" ELSE "rejected"
    /\ UNCHANGED <<rawTree, route, repaired, repairThrew>>
    /\ UNCHANGED engineVars
    /\ UNCHANGED editVars
    /\ UNCHANGED renderVars
    /\ UNCHANGED canvasVars

\* catch (error): the route answers with status 500
CatchError ==
    /\ pc = "repaired"
    /\ repairThrew
    /\ pc' = "failed"
    /\ UNCHANGED repairVars
    /\ UNCHANGED engineVars
    /\ UNCHANGED editVars
    /\ UNCHANGED renderVars
    /\ UNCHANGED canvasVars

\* what LayoutSpecSchema.parse returns for a tree without issues: the
\* defaults of rotation and zIndex are filled in
RECURSIVE withDefaults(_)
withDefaults(c) ==
    LET r == IF get(c, "rotation").t = "undefined" THEN put(c, "rotation", JNum(0)) ELSE c
        z == IF get(r, "zIndex").t = "undefined" THEN put(r, "zIndex", JNum(0)) ELSE r
    IN  IF isArray(get(z, "children"))
        THEN put(z, "children",
                 JArr([k \in 1..Len(get(z, "children").items) |->
                        withDefaults(get(z, "children").items[k])]))
        ELSE z

parsedComp(c) ==
    [id |-> get(c, "id").s, type |-> get(c, "type").s,
     position |-> [x |-> get(get(c, "position"), "x").n,
                   y |-> get(get(c, "position"), "y").n],
     size |-> [width |-> get(get(c, "size"), "width").n,
               height |-> get(get(c, "size"), "height").n],
     rotation |-> get(withDefaults(c), "rotation").n,
     zIndex |-> get(withDefaults(c), "zIndex").n,
     style |-> get(c, "style"),
     children |-> get(withDefaults(c), "children"),
     content |-> get(c, "content")]

parsedLayout(l) ==
    [id |-> get(l, "id").s,
     canvasWidth |-> get(l, "canvasWidth").n,
     canvasHeight |-> get(l, "canvasHeight").n,
     background |-> get(l, "background"),
     components |-> [k \in 1..Len(get(l, "components").items) |->
                        parsedComp(get(l, "components").items[k])],
     layers |-> get(l, "layers")]

\* the editor page: const processed = processLayout(rawLayout)
ProcessAccepted ==
    /\ pc = "accepted"
    /\ layout' = parsedLayout(repaired)
    /\ processed' = processLayout(parsedLayout(repaired))
    /\ pc' = "laidout"
    /\ UNCHANGED reprocessed
    /\ UNCHANGED repairVars
    /\ UNCHANGED editVars
    /\ UNCHANGED renderVars
    /\ UNCHANGED canvasVars

NextRepair ==
    \/ RepairInline
    \/ RepairResponse
    \/ RepairComponents
    \/ ValidateLayout
    \/ CatchError
    \/ ProcessAccepted

SpecRepair == InitRepair /\ [][NextRepair]_vars

\* ------------------------------------------------------------------------
\* Helpers of the properties
\* ------------------------------------------------------------------------
compOf(l, id) == CHOOSE c \in Range(l.components) : c.id = id

indexOf(l, id) == CHOOSE k \in 1..Len(l.components) : l.components[k].id = id

\* the geometry resolveCollisions receives: clamped, then snapped
preCollision(l) == snapAll(clampAll(l)).components

inBounds(c, l) ==
    /\ 0 <= c.position.x
    /\ c.position.x + c.size.width <= l.canvasWidth
    /\ 0 <= c.position.y
    /\ c.position.y + c.size.height <= l.canvasHeight

onGrid(c) == c.position.x % GRID = 0 /\ c.position.y % GRID = 0

\* overlap of more than 25% of the smaller component's area
collides(a, b) ==
    /\ a.zIndex = b.zIndex
    /\ intersects(a, b)
    /\ 4 * overlapArea(a, b) > smallerArea(a, b)

\* ------------------------------------------------------------------------
\* C1: no component of processLayout(L) escapes the canvas: 0 <= x,
\* x + width <= canvasWidth, 0 <= y, y + height <= canvasHeight.
\* ------------------------------------------------------------------------
C1_BoundsInvariant ==
    pc # "start" => \A c \in Range(processed.components) : inBounds(c, layout)

\* ------------------------------------------------------------------------
\* C2: every component of processLayout(L) has x and y on the grid, also
\* the components that collision resolution nudged.
\* ------------------------------------------------------------------------
C2_GridInvariant ==
    pc # "start" => \A c \in Range(processed.components) : onGrid(c)

\* ------------------------------------------------------------------------
\* C3: processLayout(processLayout(L)) = processLayout(L).
\* ------------------------------------------------------------------------
C3_Idempotent ==
    pc = "reprocessed" => reprocessed = processed

\* ------------------------------------------------------------------------
\* C4: no two components of processLayout(L) with the same zIndex overlap by
\* more than 25% of the smaller one's area.
\* ------------------------------------------------------------------------
C4_CollisionFree ==
    pc # "start" =>
        \A i, j \in 1..Len(processed.components) :
            i < j => ~ collides(processed.components[i], processed.components[j])

\* ------------------------------------------------------------------------
\* C5: when every component is within bounds and on the grid and every pair
\* with the same zIndex overlaps by at most 25% of the smaller area (25%
\* included), processLayout leaves every position unchanged; and a component
\* whose zIndex no other component has is never moved by collision
\* resolution, however much it overlaps the others.
\* ------------------------------------------------------------------------
C5_Settled(l) ==
    /\ \A c \in Range(l.components) : inBounds(c, l) /\ onGrid(c)
    /\ \A i, j \in 1..Len(l.components) :
            i < j => ~ collides(l.components[i], l.components[j])

C5_ThresholdLeavesAlone ==
    pc # "start" =>
        /\ C5_Settled(layout) =>
                \A c \in Range(layout.components) :
                    compOf(processed, c.id).position = c.position
        /\ \A k \in 1..Len(layout.components) :
                (\A m \in 1..Len(layout.components) :
                    m # k => layout.components[m].zIndex # layout.components[k].zIndex)
                => /\ resolveCollisions(preCollision(layout))[k] = preCollision(layout)[k]
                   /\ compOf(processed, layout.components[k].id) = preCollision(layout)[k]

\* two components at the same zIndex overlapping by exactly 25%, a third one at
\* another zIndex covering the first completely, and nothing moved
C5_Witness ==
    /\ pc = "processed"
    /\ Len(layout.components) = 3
    /\ C5_Settled(layout)
    /\ LET a == layout.components[1]
           b == layout.components[2]
           c == layout.components[3]
       IN  /\ a.zIndex = b.zIndex /\ c.zIndex # a.zIndex
           /\ overlapArea(a, b) > 0
           /\ 4 * overlapArea(a, b) = smallerArea(a, b)
           /\ overlapArea(a, c) = smallerArea(a, c)
           /\ \A q \in {a, b, c} : compOf(processed, q.id).position = q.position

\* ------------------------------------------------------------------------
\* C6: scenario B, two 100x100 components at zIndex 0 with positions (0,0)
\* and (90,90).  As claimed: both positions are unchanged.
\* ------------------------------------------------------------------------
C6_ScenarioB_Unchanged ==
    (pc # "start" /\ \E cv \in ScenarioCanvases : layout = ScenarioB(cv)) =>
        /\ compOf(processed, "a").position = [x |-> 0, y |-> 0]
        /\ compOf(processed, "b").position = [x |-> 90, y |-> 90]

\* C6 as amended: the first component stays at (0,0); the second is snapped
\* to the grid, (92,92), and is not nudged by collision resolution.
C6_ScenarioB_Snapped ==
    (pc # "start" /\ \E cv \in ScenarioCanvases : layout = ScenarioB(cv)) =>
        /\ compOf(processed, "a").position = [x |-> 0, y |-> 0]
        /\ compOf(processed, "b").position = [x |-> 92, y |-> 92]
        /\ processed.components = preCollision(layout)

C6_Witness ==
    /\ pc = "processed"
    /\ \E cv \in ScenarioCanvases : layout = ScenarioB(cv)
    /\ compOf(processed, "b").position.x = 92

addedComponents == { ops[k].component : k \in { m \in 1..Len(ops) : ops[m].action = "add" } }

dropAt(seq, k) == SubSeq(seq, 1, k - 1) \o SubSeq(seq, k + 1, Len(seq))

\* the Layout when the first k operations have been applied
afterOps(k) ==
    LET start == cloneLayout(heap0, layoutRef)
    IN  valLayout(applyOps(start.st, start.res, SubSeq(ops, 1, k), 1).heap, start.res)

topLevelIds(l) == { c.id : c \in Range(l.components) }

staleAt(k) ==
    /\ ops[k].action \in {"modify", "remove", "reorder"}
    /\ ops[k].componentId \notin topLevelIds(afterOps(k - 1))

C10_StaleNoOp ==
    pc = "edited" =>
        /\ ~ threw
        /\ \A k \in 1..Len(ops) :
            staleAt(k) =>
                /\ afterOps(k) = afterOps(k - 1)
                /\ LET r == applyEdits(heap0, layoutRef, dropAt(ops, k))
                   IN  /\ ~ r.threw
                       /\ valLayout(heap, resultRef) = valLayout(r.heap, r.result)
        /\ (\A k \in 1..Len(ops) : staleAt(k)) =>
                valLayout(heap, resultRef) = valLayout(heap0, layoutRef)

\* a stale operation naming a nested child's id, followed by an operation
\* that took effect
C10_Witness ==
    /\ pc = "edited"
    /\ Len(ops) = 2
    /\ staleAt(1)
    /\ ops[1].componentId = "x"
    /\ ~ staleAt(2)
    /\ valLayout(heap, resultRef) # valLayout(heap0, layoutRef)


\* ------------------------------------------------------------------------
\* The effect of one operation of the batch: the Layout before it and after
\* it, and the component it names.
\* ------------------------------------------------------------------------
firstIndex(l, id) ==
    CHOOSE i \in 1..Len(l.components) :
        /\ l.components[i].id = id
        /\ \A j \in 1..(i - 1) : l.components[j].id # id

found(k) == ops[k].componentId \in topLevelIds(afterOps(k - 1))

envelope(l) == [id |-> l.id, canvasWidth |-> l.canvasWidth,
                canvasHeight |-> l.canvasHeight, background |-> l.background]

StyleKeys == {"fill", "fontSize", "gradient"}

\* ------------------------------------------------------------------------
\* C11: modify on an existing top-level component merges style key by key:
\* a style key absent from changes.style keeps its presence and its value, a
\* key present takes the value of changes.style; id, type, children and every
\* one of position, size, rotation, zIndex, content that changes does not
\* name are unchanged, the fields it names take the new values, and all other
\* components (and the layers) are unchanged.
\* ------------------------------------------------------------------------
C11_ModifyMerges ==
    pc = "edited" =>
      \A k \in 1..Len(ops) :
        (ops[k].action = "modify" /\ found(k)) =>
          LET before == afterOps(k - 1)
              after == afterOps(k)
              i == firstIndex(before, ops[k].componentId)
              b == before.components[i]
              a == after.components[i]
              chg == heap0[ops[k].changes]
              cs == IF "style" \in chg.has THEN valStyle(heap0, chg.style)
                    ELSE [has |-> {}, fill |-> "", fontSize |-> 0, gradient |-> 0]
          IN  /\ Len(after.components) = Len(before.components)
              /\ \A j \in 1..Len(before.components) :
                    j # i => after.components[j] = before.components[j]
              /\ after.layers = before.layers
              /\ envelope(after) = envelope(before)
              /\ a.id = b.id /\ a.type = b.type /\ a.children = b.children
              /\ \A key \in StyleKeys :
                    IF key \in cs.has
                    THEN key \in a.style.has /\ a.style[key] = cs[key]
                    ELSE /\ (key \in a.style.has) = (key \in b.style.has)
                         /\ a.style[key] = b.style[key]
              /\ a.position = IF "position" \in chg.has
                              THEN [x |-> heap0[chg.position].x,
                                    y |-> heap0[chg.position].y]
                              ELSE b.position
              /\ a.size = IF "size" \in chg.has
                          THEN [width |-> heap0[chg.size].width,
                                height |-> heap0[chg.size].height]
                          ELSE b.size
              /\ a.rotation = IF "rotation" \in chg.has THEN chg.rotation
                              ELSE b.rotation
              /\ a.zIndex = IF "zIndex" \in chg.has THEN chg.zIndex ELSE b.zIndex
              /\ a.content = IF "content" \in chg.has THEN chg.content
                             ELSE b.content

\* a change of fontSize only was applied to "a", whose style had a fill and a
\* gradient: the gradient is still there and fontSize is 20
C11_Witness ==
    /\ pc = "edited"
    /\ Len(ops) = 1
    /\ ops[1].action = "modify"
    /\ ops[1].componentId = "a"
    /\ "style" \in heap0[ops[1].changes].has
    /\ heap0[heap0[ops[1].changes].style].has = {"fontSize"}
    /\ LET a == valLayout(heap, resultRef).components[1]
       IN  /\ a.style.has = {"fill", "gradient", "fontSize"}
           /\ a.style.gradient = 90
           /\ a.style.fontSize = 20
           /\ a.style.fill = "#fff"

\* ------------------------------------------------------------------------
\* C12: add appends a copy of the given component as the last top-level
\* component; with at least one Layer its id is appended to the first
\* Layer's componentIds and to no other; the existing components, the other
\* layers and the rest of the Layout are unchanged; with no Layer only the
\* components list changes.
\* ------------------------------------------------------------------------
C12_AddAppends ==
    pc = "edited" =>
      \A k \in 1..Len(ops) :
        ops[k].action = "add" =>
          LET before == afterOps(k - 1)
              after == afterOps(k)
              c == valComp(heap0, ops[k].component)
              n == Len(before.components)
          IN  /\ Len(after.components) = n + 1
              /\ after.components[n + 1] = c
              /\ \A j \in 1..n : after.components[j] = before.components[j]
              /\ envelope(after) = envelope(before)
              /\ Len(after.layers) = Len(before.layers)
              /\ \A m \in 2..Len(before.layers) : after.layers[m] = before.layers[m]
              /\ Len(before.layers) > 0 =>
                    after.layers[1] =
                        [before.layers[1] EXCEPT !.componentIds = Append(@, c.id)]

\* "n" was added to a Layout of two layers
C12_Witness ==
    /\ pc = "edited"
    /\ Len(ops) = 1
    /\ ops[1].action = "add"
    /\ LET l == valLayout(heap, resultRef)
       IN  /\ Len(l.components) = 3
           /\ l.components[3].id = "n"
           /\ Len(l.layers) = 2
           /\ l.layers[1].componentIds = <<"a", "n">>
           /\ l.layers[2].componentIds = <<"b", "a">>

\* ------------------------------------------------------------------------
\* C13: after remove(id) no top-level component has the id and no Layer's
\* componentIds contains it; every other component and every other entry of
\* every Layer is kept, in the order it had.
\* ------------------------------------------------------------------------
C13_RemoveDeletes ==
    pc = "edited" =>
      \A k \in 1..Len(ops) :
        ops[k].action = "remove" =>
          LET before == afterOps(k - 1)
              after == afterOps(k)
              id == ops[k].componentId
              other(c) == c.id # id
              otherId(v) == v # id
          IN  /\ id \notin topLevelIds(after)
              /\ \A m \in 1..Len(after.layers) :
                    id \notin Range(after.layers[m].componentIds)
              /\ after.components = SelectSeq(before.components, other)
              /\ Len(after.layers) = Len(before.layers)
              /\ \A m \in 1..Len(before.layers) :
                    after.layers[m] =
                        [before.layers[m] EXCEPT
                            !.componentIds = SelectSeq(@, otherId)]
              /\ envelope(after) = envelope(before)

\* "a", listed by both layers, was removed
C13_Witness ==
    /\ pc = "edited"
    /\ Len(ops) = 1
    /\ ops[1].action = "remove"
    /\ ops[1].componentId = "a"
    /\ LET l == valLayout(heap, resultRef)
       IN  /\ topLevelIds(l) = {"b"}
           /\ Len(l.layers) = 2
           /\ l.layers[1].componentIds = <<>>
           /\ l.layers[2].componentIds = <<"b">>

\* ------------------------------------------------------------------------
\* C14: reorder(id, newZIndex) on an existing top-level component sets its
\* zIndex to newZIndex and changes nothing else: no other component changes,
\* the order of the components list is the same and the layers are the same.
\* ------------------------------------------------------------------------
C14_ReorderRelabels ==
    pc = "edited" =>
      \A k \in 1..Len(ops) :
        (ops[k].action = "reorder" /\ found(k)) =>
          LET before == afterOps(k - 1)
              after == afterOps(k)
              i == firstIndex(before, ops[k].componentId)
          IN  after = [before EXCEPT !.components[i].zIndex = ops[k].newZIndex]

\* "n" (zIndex 2) was added and then "b" (zIndex 3) was raised to 5: no
\* sibling's zIndex moved and the list is in its previous order
C14_Witness ==
    /\ pc = "edited"
    /\ Len(ops) = 2
    /\ ops[2].action = "reorder"
    /\ ops[2].componentId = "b"
    /\ LET l == valLayout(heap, resultRef)
       IN  /\ Len(l.components) = 3
           /\ l.components[1].id = "a" /\ l.components[1].zIndex = 1
           /\ l.components[2].id = "b" /\ l.components[2].zIndex = 5
           /\ l.components[3].zIndex = 2


\* ------------------------------------------------------------------------
\* The components of a tree: the entries of components, and under each the
\* entries of children, at every depth.
\* ------------------------------------------------------------------------
topEntries(tree) ==
    IF hasProps(tree) /\ isArray(get(tree, "components"))
    THEN get(tree, "components").items
    ELSE << >>

RECURSIVE subtree(_)
subtree(v) ==
    {v} \cup (IF hasProps(v) /\ isArray(get(v, "children"))
              THEN UNION { subtree(get(v, "children").items[k]) :
                                k \in 1..Len(get(v, "children").items) }
              ELSE {})

entriesOf(tree) == UNION { subtree(topEntries(tree)[k]) : k \in 1..Len(topEntries(tree)) }

\* the repairs of the inline loop and of repairResponse, which are among
\* the sources
codeRoute == route \in {"inline", "edit"}

negativeZ(c) == typeOf(get(c, "zIndex")) = "number" /\ get(c, "zIndex").n < 0

wellFormedShadow(sh) ==
    /\ sh.t = "object"
    /\ get(sh, "x").t = "number" /\ get(sh, "y").t = "number"
    /\ get(sh, "blur").t = "number" /\ get(sh, "color").t = "string"

\* ------------------------------------------------------------------------
\* C15: the repair never throws: whatever the parsed tree (components
\* missing or not an array, null or non-object entries in components or in
\* children, components without style), it returns normally.
\* ------------------------------------------------------------------------
C15_RepairNeverThrows ==
    (pc = "repaired" /\ codeRoute) => ~ repairThrew

\* ------------------------------------------------------------------------
\* C16: after the repair every component at every nesting depth has had the
\* repairs of a top-level component (no negative zIndex, a style, no string
\* fontWeight, no string shadow, shadows absent or a non-empty array of
\* well-formed entries, a type among the 11 kinds), every children array
\* holds only objects with a type field, and no children array is empty.
\* ------------------------------------------------------------------------
C16_Repaired(c) ==
    /\ ~ negativeZ(c)
    /\ truthy(get(c, "style"))
    /\ typeOf(get(get(c, "style"), "fontWeight")) # "string"
    /\ typeOf(get(get(c, "style"), "shadow")) # "string"
    /\ LET shadows == get(get(c, "style"), "shadows")
       IN  \/ shadows.t = "undefined"
           \/ /\ isArray(shadows)
              /\ shadows.items # << >>
              /\ \A k \in 1..Len(shadows.items) : wellFormedShadow(shadows.items[k])
    /\ get(c, "type").t = "string" => get(c, "type").s \in KnownTypes
    /\ LET children == get(c, "children")
       IN  isArray(children) =>
            /\ children.items # << >>
            /\ \A k \in 1..Len(children.items) : isTypedObject(children.items[k])

C16_RecursiveRepair ==
    (pc = "repaired" /\ codeRoute /\ ~ repairThrew) =>
        \A c \in entriesOf(repaired) : c.t = "object" => C16_Repaired(c)

\* ------------------------------------------------------------------------
\* C17: on a path that repairs and then validates, a component whose raw
\* zIndex is negative ends with zIndex 0 and a non-negative zIndex is
\* unchanged (top-level entries keep their index), no component at any
\* depth is left with a negative zIndex, and validation reports no zIndex
\* issue.
\* ------------------------------------------------------------------------
C17_NegativeZIndexRepaired ==
    /\ (pc = "repaired" /\ codeRoute /\ ~ repairThrew) =>
        /\ \A c \in entriesOf(repaired) : hasProps(c) => ~ negativeZ(c)
        /\ \A k \in 1..Len(topEntries(rawTree)) :
            LET before == topEntries(rawTree)[k]
                after == topEntries(repaired)[k]
            IN  typeOf(get(before, "zIndex")) = "number" =>
                    get(after, "zIndex") =
                        IF negativeZ(before) THEN JNum(0) ELSE get(before, "zIndex")
    /\ (pc \in {"accepted", "rejected"} /\ codeRoute) =>
        \A i \in issues : i.field # "zIndex"

\* ------------------------------------------------------------------------
\* C18: after the repair no component's style has a string shadow, and its
\* shadows is absent or a non-empty array of well-formed entries (objects
\* with numeric x, y, blur and a string color); for a top-level entry the
\* array holds exactly the well-formed entries of the raw shadows, in their
\* order, and a string or other non-array shadows, or an array without a
\* well-formed entry, is removed.
\* ------------------------------------------------------------------------
C18_TopLevelSanitised ==
    \A k \in 1..Len(topEntries(repaired)) :
        LET rawStyle == get(topEntries(rawTree)[k], "style")
            style == get(topEntries(repaired)[k], "style")
            rawShadows == get(rawStyle, "shadows")
            wellFormed == IF isArray(rawShadows)
                          THEN SelectSeq(rawShadows.items, wellFormedShadow)
                          ELSE << >>
        IN  /\ get(style, "shadow").t # "string"
            /\ IF wellFormed = << >>
               THEN ~ (hasProps(style) /\ "shadows" \in DOMAIN style.f)
               ELSE /\ isArray(get(style, "shadows"))
                    /\ get(style, "shadows").items = wellFormed

C18_ShadowSanitation ==
    (pc = "repaired" /\ codeRoute /\ ~ repairThrew) =>
        /\ C18_TopLevelSanitised
        /\ \A c \in entriesOf(repaired) :
            hasProps(c) =>
                LET style == get(c, "style")
                    shadows == get(style, "shadows")
                IN  /\ get(style, "shadow").t # "string"
                    /\ \/ ~ (hasProps(style) /\ "shadows" \in DOMAIN style.f)
                       \/ /\ isArray(shadows)
                          /\ shadows.items # << >>
                          /\ \A k \in 1..Len(shadows.items) :
                                wellFormedShadow(shadows.items[k])

\* what holds of the code: the entries of components are sanitised as the
\* rule says
C18_TopLevelOnly ==
    (pc = "repaired" /\ codeRoute /\ ~ repairThrew) => C18_TopLevelSanitised

\* ------------------------------------------------------------------------
\* C19: a string fontWeight is replaced by its parsed integer; when the
\* string is unparsable the fontWeight key is absent afterwards; so after
\* the repair fontWeight is either absent or a number.
\* ------------------------------------------------------------------------
C19_FontWeightCoercion ==
    (pc = "repaired" /\ codeRoute /\ ~ repairThrew) =>
        \A k \in 1..Len(topEntries(repaired)) :
            LET rawWeight == get(get(topEntries(rawTree)[k], "style"), "fontWeight")
                style == get(topEntries(repaired)[k], "style")
            IN  /\ (rawWeight.t = "string" /\ ~ parseInt(rawWeight.s).nan) =>
                        get(style, "fontWeight") = JNum(parseInt(rawWeight.s).n)
                /\ (rawWeight.t = "string" /\ parseInt(rawWeight.s).nan) =>
                        ~ (hasProps(style) /\ "fontWeight" \in DOMAIN style.f)
                /\ hasProps(style) /\ "fontWeight" \in DOMAIN style.f =>
                        get(style, "fontWeight").t = "number"


\* ------------------------------------------------------------------------
\* C20: type coercion is total onto the 11 kinds: a known type is
\* unchanged; an unknown type string goes by keyword of its lower-cased
\* form (heading/paragraph/label/title: text; image/img/photo:
\* image-placeholder; line/separator/hr: divider; list/section/group/nav/
\* header/footer: container), anything unmatched is shape; a type containing
\* "photo" yields image-placeholder and "navbar" yields container; after the
\* repair every component's type is one of the 11 kinds.
\* ------------------------------------------------------------------------
typedTop(k) ==
    /\ topEntries(rawTree)[k].t = "object"
    /\ get(topEntries(rawTree)[k], "type").t = "string"

rawType(k) == get(topEntries(rawTree)[k], "type").s
newType(k) == get(topEntries(repaired)[k], "type").s

\* every typed component of the repaired tree, at every depth, has one of
\* the 11 kinds; at the top level a known type is the one it was,
\* "hero-photo" has become image-placeholder, "navbar" container and
\* "widget", which has none of the keywords, shape
C20_TypeCoercion ==
    (pc = "repaired" /\ ~ repairThrew) =>
        /\ \A c \in entriesOf(repaired) :
            (c.t = "object" /\ get(c, "type").t = "string") =>
                get(c, "type").s \in KnownTypes
        /\ \A k \in 1..Len(topEntries(rawTree)) :
            typedTop(k) =>
                /\ rawType(k) \in KnownTypes => newType(k) = rawType(k)
                /\ rawType(k) = <<"h","e","r","o","-","p","h","o","t","o">> =>
                    newType(k) = <<"i","m","a","g","e","-","p","l","a","c","e",
                                   "h","o","l","d","e","r">>
                /\ rawType(k) = <<"n","a","v","b","a","r">> =>
                    newType(k) = <<"c","o","n","t","a","i","n","e","r">>
                /\ rawType(k) = <<"w","i","d","g","e","t">> =>
                    newType(k) = <<"s","h","a","p","e">>


\* ------------------------------------------------------------------------
\* C21: scenario A.  For the raw output with the one component {id "a",
\* type "headline-text", position (-10, 5), size 100x20, zIndex -3,
\* style.fontWeight "700"} on a 400x300 canvas, repair, validation and
\* processLayout succeed and component a has type "text", zIndex 0,
\* style.fontWeight the number 700 and position.x >= 0.
\* ------------------------------------------------------------------------
ScenarioA == envelopeOf(JArr(<<EntryChoices[2]>>))

\* the run of the current generate-layout route on scenario A
scenarioARun == rawTree = ScenarioA /\ route = "shared"

C21_ScenarioA ==
    /\ scenarioARun => pc \notin {"rejected", "failed"}
    /\ (scenarioARun /\ pc = "laidout") =>
        /\ Len(processed.components) = 1
        /\ LET a == processed.components[1]
           IN  /\ a.id = <<"a">>
               /\ a.type = <<"t","e","x","t">>
               /\ a.zIndex = 0
               /\ get(a.style, "fontWeight") = JNum(700)
               /\ a.position.x >= 0

\* all of scenario A but the type
C21_ScenarioAButType ==
    /\ scenarioARun => pc \notin {"rejected", "failed"}
    /\ (scenarioARun /\ pc = "laidout") =>
        /\ Len(processed.components) = 1
        /\ LET a == processed.components[1]
           IN  /\ a.id = <<"a">>
               /\ a.type \in KnownTypes
               /\ a.zIndex = 0
               /\ get(a.style, "fontWeight") = JNum(700)
               /\ a.position = [x |-> 0, y |-> 4]


\* ------------------------------------------------------------------------
\* C22: validation is exhaustive over the tree.  When LayoutSpecSchema.parse
\* returns a Layout, its components list has at most 50 entries and every
\* component of it, at every nesting depth, has a type among the 11 kinds,
\* size.width >= 1, size.height >= 1 and an integer zIndex >= 0; a tree in
\* which some component, however deep, has another type, a smaller size or
\* a zIndex that is negative or not an integer is rejected.
\* ------------------------------------------------------------------------
validated == pc \in {"accepted", "rejected", "laidout"}
returned == pc \in {"accepted", "laidout"}

meetsInvariants(c) ==
    /\ c.t = "object"
    /\ get(c, "type").t = "string" /\ get(c, "type").s \in KnownTypes
    /\ get(c, "size").t = "object"
    /\ get(get(c, "size"), "width").t = "number"
    /\ get(get(c, "size"), "width").n >= 1
    /\ get(get(c, "size"), "height").t = "number"
    /\ get(get(c, "size"), "height").n >= 1
    /\ isInteger(get(c, "zIndex")) /\ get(c, "zIndex").n >= 0

\* a component that breaks one of the invariants by a value it carries
violates(c) ==
    \/ c.t # "object"
    \/ get(c, "type").t = "string" /\ get(c, "type").s \notin KnownTypes
    \/ get(get(c, "size"), "width").t = "number" /\ get(get(c, "size"), "width").n < 1
    \/ get(get(c, "size"), "height").t = "number" /\ get(get(c, "size"), "height").n < 1
    \/ get(c, "zIndex").t = "number"
            /\ (~ isInteger(get(c, "zIndex")) \/ get(c, "zIndex").n < 0)

C22_ValidationExhaustive ==
    /\ returned =>
        /\ Len(topEntries(repaired)) <= MaxComponents
        /\ \A k \in 1..Len(topEntries(repaired)) :
            \A c \in subtree(withDefaults(topEntries(repaired)[k])) :
                meetsInvariants(c)
    /\ validated =>
        /\ Len(topEntries(repaired)) > MaxComponents => pc = "rejected"
        /\ (\E c \in entriesOf(repaired) : violates(c)) => pc = "rejected"

\* a card whose only flaw is the height 0 of its child was rejected, with
\* the one issue at the child
C22_Witness ==
    /\ pc = "rejected"
    /\ Len(topEntries(repaired)) = 1
    /\ ~ violates(topEntries(repaired)[1])
    /\ issues = {issue(<<1, 1>>, "size.height", "too_small")}


distinctIds(l) ==
    \A i, j \in 1..Len(l.components) :
        i # j => l.components[i].id # l.components[j].id

C27_IdsStayUnique ==
    (pc = "edited" /\ ~ threw /\ distinctIds(valLayout(heap0, layoutRef))) =>
        distinctIds(valLayout(heap, resultRef))

\* ------------------------------------------------------------------------
\* C28: layer references stay valid under editing: when every id in every
\* Layer's componentIds names a top-level component, the same holds after
\* each operation of applyEdits (modify, add, remove, reorder).
\* ------------------------------------------------------------------------
refsValid(l) ==
    \A m \in 1..Len(l.layers) :
        Range(l.layers[m].componentIds) \subseteq topLevelIds(l)

C28_LayerRefsValid ==
    (pc = "edited" /\ refsValid(valLayout(heap0, layoutRef))) =>
        /\ ~ threw
        /\ \A k \in 0..Len(ops) : refsValid(afterOps(k))

\* "n" was added and "a", which both layers listed, removed
C28_Witness ==
    /\ pc = "edited"
    /\ Len(ops) = 2
    /\ ops[1].action = "add"
    /\ ops[2].action = "remove" /\ ops[2].componentId = "a"
    /\ LET l == valLayout(heap, resultRef)
       IN  /\ topLevelIds(l) = {"b", "n"}
           /\ Len(l.layers) = 2
           /\ l.layers[1].componentIds = <<"n">>
           /\ l.layers[2].componentIds = <<"b">>

\* ------------------------------------------------------------------------
\* C29: zIndex stays valid under editing: from a validated Layout, after
\* applyEdits with operations that EditInstructionSchema accepts, every
\* top-level component's zIndex is a non-negative integer.
\* ------------------------------------------------------------------------
C29_ZIndexStaysValid ==
    (pc = "edited" /\ ~ threw) =>
        \A c \in Range(valLayout(heap, resultRef).components) :
            c.zIndex \in Nat

(***************************************************************************)
(* The renderers: svg-mapper.ts (componentToSVG, used by CanvasEditor) and *)
(* react-renderer.tsx (componentToReact, used by LayoutPreview).           *)
(*                                                                         *)
(* A rendered component is a record and not a string: an <svg> element is  *)
(* its <defs> entries in order, the fill and the filter of its rectangle   *)
(* and its <g transform="translate(cx,cy)"> children; a React node is its  *)
(* background, boxShadow/textShadow (the layers in order, << >> for        *)
(* undefined) and its absolutely positioned children.  An identifier       *)
(* `grad-7` is the pair <<"grad", 7>>.                                     *)
(***************************************************************************)

\* The number of render calls of one process that are followed.
MaxRenders == 2

\* A shadow {x, y, blur, color}.
Sh(x, y, blur, color) == [x |-> x, y |-> y, blur |-> blur, color |-> color]

NoShadow == Sh(0, 0, 0, "none")
NoId == <<"none", 0>>

\* A style: `has` holds the keys that are present.
rstyle(has, fill, gradient, shadow, shadows) ==
    [has |-> has, fill |-> fill, gradient |-> gradient, shadow |-> shadow, shadows |-> shadows]

rcomp(id, type, x, y, w, h, style, children) ==
    [id |-> id, type |-> type, position |-> [x |-> x, y |-> y],
     size |-> [width |-> w, height |-> h], style |-> style, children |-> children]

truthyFill(s) == "fill" \in s.has /\ s.fill # ""

colorFill(c) == [kind |-> "color", color |-> c, ref |-> NoId]
urlFill(id) == [kind |-> "url", color |-> "", ref |-> id]

\* buildGradientDef: the <linearGradient id=...> of the stops.
buildGradientDef(gradient, id) ==
    [def |-> [kind |-> "linearGradient", id |-> id, shadow |-> NoShadow, stops |-> gradient],
     url |-> urlFill(id)]

\* resolveFill: `defs` is what it pushes, `counter` the module counter after it.
resolveFill(s, fallback, counter) ==
    IF "gradient" \in s.has /\ Len(s.gradient) >= 2
    THEN LET id == <<"grad", counter + 1>>
             g == buildGradientDef(s.gradient, id)
         IN [fill |-> g.url, defs |-> <<g.def>>, counter |-> counter + 1]
    ELSE [fill |-> colorFill(IF truthyFill(s) THEN s.fill ELSE fallback),
          defs |-> << >>, counter |-> counter]

\* buildShadowFilter: the <filter id=...><feDropShadow .../></filter>.
buildShadowFilter(shadow, id) ==
    [def |-> [kind |-> "filter", id |-> id, shadow |-> shadow, stops |-> << >>],
     attr |-> id]

SvgCardDefaultShadow == Sh(0, 4, 12, "rgba(0,0,0,0.1)")

svgNode(spec, defs, fill, filter, highlight, children) ==
    [width |-> spec.size.width, height |-> spec.size.height, defs |-> defs,
     fill |-> fill, filter |-> filter, highlight |-> highlight, children |-> children]

FillFallback(type) ==
    CASE type = "shape" -> "#ccc"
      [] type = "image-placeholder" -> "#E5E7EB"
      [] type = "icon" -> "#6B7280"
      [] type = "avatar" -> "#6366F1"
      [] type = "badge" -> "#10B981"
      [] OTHER -> "#eee"

RECURSIVE componentToSVG(_, _)
RECURSIVE childSVGs(_, _, _)

\* (spec.children || []).map(child => <g transform="translate(cx,cy)">...</g>)
\* for the children 1..k; the calls of componentToSVG share the counter.
childSVGs(spec, k, counter) ==
    IF k = 0
    THEN [out |-> << >>, counter |-> counter]
    ELSE LET before == childSVGs(spec, k - 1, counter)
             kid == spec.children[k]
             cx == kid.position.x - spec.position.x
             cy == kid.position.y - spec.position.y
             r == componentToSVG(kid, before.counter)
         IN [out |-> Append(before.out, [translate |-> [x |-> cx, y |-> cy], svg |-> r.svg]),
             counter |-> r.counter]

\* componentToSVG with the module variable gradientCounter made explicit:
\* `counter` is its value at the call, the result carries its value after.
componentToSVG(spec, counter) ==
    LET s == spec.style
    IN CASE spec.type = "text" ->
              [svg |-> svgNode(spec, << >>, colorFill("#000"), NoId, NoId, << >>),
               counter |-> counter]
         [] spec.type = "button" ->
              LET f == resolveFill(s, "#3B82F6", counter)
                  n == f.counter + 1
                  filterId == <<"btn-shadow", n>>
                  sf == buildShadowFilter(s.shadow, filterId)
                  hasShadow == "shadow" \in s.has
                  highlightId == <<"btn-hl", n>>
                  hl == [kind |-> "linearGradient", id |-> highlightId,
                         shadow |-> NoShadow, stops |-> << >>]
              IN [svg |-> svgNode(spec,
                                  f.defs \o (IF hasShadow THEN <<sf.def>> ELSE << >>) \o <<hl>>,
                                  f.fill, IF hasShadow THEN sf.attr ELSE NoId,
                                  highlightId, << >>),
                  counter |-> n]
         [] spec.type = "card" ->
              LET f == resolveFill(s, "#fff", counter)
                  n == f.counter + 1
                  shadowUsed == IF "shadow" \in s.has THEN s.shadow ELSE SvgCardDefaultShadow
                  sf == buildShadowFilter(shadowUsed, <<"card-shadow", n>>)
                  kids == childSVGs(spec, Len(spec.children), n)
              IN [svg |-> svgNode(spec, f.defs \o <<sf.def>>, f.fill, sf.attr, NoId, kids.out),
                  counter |-> kids.counter]
         [] spec.type = "container" ->
              LET hasBg == truthyFill(s) \/ "gradient" \in s.has
                  f == IF hasBg
                       THEN resolveFill(s, IF truthyFill(s) THEN s.fill ELSE "transparent", counter)
                       ELSE [fill |-> colorFill("none"), defs |-> << >>, counter |-> counter]
                  kids == childSVGs(spec, Len(spec.children), f.counter)
              IN [svg |-> svgNode(spec, f.defs, f.fill, NoId, NoId, kids.out),
                  counter |-> kids.counter]
         [] spec.type \in {"shape", "image-placeholder", "icon", "avatar", "badge"} ->
              LET f == resolveFill(s, FillFallback(spec.type), counter)
              IN [svg |-> svgNode(spec, f.defs, f.fill, NoId, NoId, << >>),
                  counter |-> f.counter]
         [] spec.type = "divider" ->
              [svg |-> svgNode(spec, << >>,
                               colorFill(IF truthyFill(s) THEN s.fill ELSE "#E5E7EB"),
                               NoId, NoId, << >>),
               counter |-> counter]
         [] spec.type = "input-field" ->
              [svg |-> svgNode(spec, << >>,
                               colorFill(IF truthyFill(s) THEN s.fill ELSE "#F9FAFB"),
                               NoId, NoId, << >>),
               counter |-> counter]
         [] OTHER ->
              [svg |-> svgNode(spec, << >>, colorFill("#eee"), NoId, NoId, << >>),
               counter |-> counter]

\* react-renderer.tsx

resolveBackground(s, fallback) ==
    IF "gradient" \in s.has /\ Len(s.gradient) >= 2
    THEN [kind |-> "linear-gradient", color |-> "", stops |-> s.gradient]
    ELSE [kind |-> "color", color |-> IF truthyFill(s) THEN s.fill ELSE fallback,
          stops |-> << >>]

\* resolveBoxShadow: the layers joined by ", "; << >> is undefined.
resolveBoxShadow(s) ==
    IF "shadows" \in s.has /\ Len(s.shadows) > 0
    THEN s.shadows
    ELSE IF "shadow" \in s.has
         THEN <<s.shadow>>
         ELSE << >>

\* renderText: the value of textShadow.
resolveTextShadow(s) ==
    IF resolveBoxShadow(s) # << >>
    THEN IF "shadows" \in s.has /\ s.shadows # << >>
         THEN s.shadows
         ELSE IF "shadow" \in s.has THEN <<s.shadow>> ELSE << >>
    ELSE << >>

ReactCardDefaultShadow ==
    <<Sh(0, 1, 3, "rgba(0,0,0,0.08)"), Sh(0, 4, 16, "rgba(0,0,0,0.06)")>>

resolveChildPosition(kid, parentSpec) ==
    LET relX == kid.position.x - parentSpec.position.x
        relY == kid.position.y - parentSpec.position.y
    IN IF relX >= 0 /\ relX < parentSpec.size.width /\ relY >= 0 /\ relY < parentSpec.size.height
       THEN [left |-> relX, top |-> relY]
       ELSE [left |-> kid.position.x, top |-> kid.position.y]

reactNode(spec, background, boxShadow, textShadow, children) ==
    [width |-> spec.size.width, height |-> spec.size.height, background |-> background,
     boxShadow |-> boxShadow, textShadow |-> textShadow, children |-> children]

plainBackground(c) == [kind |-> "color", color |-> c, stops |-> << >>]

RECURSIVE componentToReact(_)

\* (spec.children || []).map(child => <div style={{left, top}}>...</div>)
childNodes(spec) ==
    [k \in 1..Len(spec.children) |->
        LET pos == resolveChildPosition(spec.children[k], spec)
        IN [left |-> pos.left, top |-> pos.top, node |-> componentToReact(spec.children[k])]]

componentToReact(spec) ==
    LET s == spec.style
    IN CASE spec.type = "text" ->
              reactNode(spec, plainBackground("none"), << >>, resolveTextShadow(s), << >>)
         [] spec.type = "button" ->
              reactNode(spec, resolveBackground(s, "#3B82F6"), resolveBoxShadow(s), << >>, << >>)
         [] spec.type = "shape" ->
              reactNode(spec, resolveBackground(s, "#ccc"), resolveBoxShadow(s), << >>, << >>)
         [] spec.type = "card" ->
              reactNode(spec, resolveBackground(s, "#fff"),
                        IF resolveBoxShadow(s) # << >>
                        THEN resolveBoxShadow(s) ELSE ReactCardDefaultShadow,
                        << >>, childNodes(spec))
         [] spec.type = "container" ->
              reactNode(spec,
                        IF truthyFill(s) \/ "gradient" \in s.has
                        THEN resolveBackground(s, "transparent")
                        ELSE plainBackground("transparent"),
                        << >>, << >>, childNodes(spec))
         [] spec.type \in {"image-placeholder", "icon", "avatar"} ->
              reactNode(spec, resolveBackground(s, FillFallback(spec.type)), << >>, << >>, << >>)
         [] spec.type = "badge" ->
              reactNode(spec, resolveBackground(s, "#10B981"), resolveBoxShadow(s), << >>, << >>)
         [] spec.type = "divider" ->
              reactNode(spec, plainBackground(IF truthyFill(s) THEN s.fill ELSE "#E5E7EB"),
                        << >>, << >>, << >>)
         [] spec.type = "input-field" ->
              reactNode(spec, plainBackground(IF truthyFill(s) THEN s.fill ELSE "#F9FAFB"),
                        << >>, << >>, << >>)
         [] OTHER ->
              reactNode(spec, plainBackground("#eee"), << >>, << >>, << >>)

\* The components that are rendered.

S1 == Sh(0, 2, 4, "rgba(0,0,0,0.3)")
S2 == Sh(0, 1, 2, "rgba(0,0,0,0.1)")
S3 == Sh(0, 8, 24, "rgba(0,0,0,0.2)")

TwoStops == <<"#f00", "#00f">>

Unstyled == rstyle({}, "", << >>, NoShadow, << >>)

leaf(id, type, x, y, style) == rcomp(id, type, x, y, 40, 20, style, << >>)

RenderChoices ==
    << leaf("b1", "button", 0, 0, rstyle({"fill", "shadow", "shadows"}, "#00f", << >>, S1, <<S2, S3>>)),
       leaf("b2", "button", 0, 0, rstyle({"shadows"}, "", << >>, NoShadow, <<S2>>)),
       leaf("b3", "button", 0, 0, rstyle({"gradient", "shadow"}, "", TwoStops, S1, << >>)),
       leaf("b4", "button", 0, 0, Unstyled),
       rcomp("c1", "card", 10, 10, 100, 80,
             rstyle({"shadow", "shadows"}, "", << >>, S1, <<S2, S3>>),
             <<leaf("t1", "text", 20, 30, Unstyled)>>),
       rcomp("c2", "card", 10, 10, 100, 80, Unstyled,
             <<leaf("b5", "button", 3, 5, rstyle({"shadow"}, "", << >>, S3, << >>))>>),
       rcomp("k1", "container", 10, 10, 100, 80,
             rstyle({"gradient"}, "", TwoStops, NoShadow, << >>),
             <<leaf("s1", "shape", 15, 15, rstyle({"gradient"}, "", TwoStops, NoShadow, << >>)),
               leaf("t2", "text", 200, 5, Unstyled)>>),
       leaf("s2", "shape", 0, 0, rstyle({"gradient", "shadows"}, "", TwoStops, NoShadow, <<S2, S3>>)),
       leaf("t3", "text", 0, 0, rstyle({"shadow", "shadows"}, "", << >>, S1, << >>)),
       leaf("g1", "badge", 0, 0, rstyle({"shadows"}, "", << >>, NoShadow, <<S3, S2>>)),
       leaf("d1", "divider", 0, 0, Unstyled),
       rcomp("k2", "container", 0, 0, 100, 80, Unstyled,
             <<leaf("i1", "icon", 5, 5, rstyle({"fill"}, "#0f0", << >>, NoShadow, << >>))>>),
       leaf("s3", "shape", 0, 0, rstyle({"fill", "gradient"}, "#abc", <<"#f00">>, NoShadow, << >>)) >>

renders == Len(svgOuts) + Len(reactOuts)

InitRender ==
    /\ pc = "rendering"
    /\ EngineIdle
    /\ EditIdle
    /\ RepairIdle
    /\ RenderIdle
    /\ CanvasIdle

\* A call of componentToSVG (CanvasEditor's loadLayout makes one for each
\* component); the module variable gradientCounter lives on between calls.
RenderSvg ==
    /\ pc = "rendering"
    /\ renders < MaxRenders
    /\ \E i \in 1..Len(RenderChoices) :
          LET r == componentToSVG(RenderChoices[i], gradientCounter)
          IN /\ svgOuts' = Append(svgOuts, [spec |-> RenderChoices[i], out |-> r.svg])
             /\ gradientCounter' = r.counter
    /\ UNCHANGED <<pc, reactOuts>>
    /\ UNCHANGED engineVars
    /\ UNCHANGED editVars
    /\ UNCHANGED repairVars
    /\ UNCHANGED canvasVars

\* A call of componentToReact (LayoutRenderer makes one for each component).
RenderReact ==
    /\ pc = "rendering"
    /\ renders < MaxRenders
    /\ \E i \in 1..Len(RenderChoices) :
          reactOuts' = Append(reactOuts, [spec |-> RenderChoices[i],
                                          out |-> componentToReact(RenderChoices[i])])
    /\ UNCHANGED <<pc, svgOuts, gradientCounter>>
    /\ UNCHANGED engineVars
    /\ UNCHANGED editVars
    /\ UNCHANGED repairVars
    /\ UNCHANGED canvasVars

NextRender ==
    \/ RenderSvg
    \/ RenderReact

SpecRender == InitRender /\ [][NextRender]_vars

\* ------------------------------------------------------------------------
\* Properties of the renderers
\* ------------------------------------------------------------------------

\* Every rendered component with its output: the components handed to the
\* renderer and the children rendered inside them.
svgPairs ==
    {[spec |-> svgOuts[i].spec, out |-> svgOuts[i].out] : i \in 1..Len(svgOuts)}
    \cup UNION {{[spec |-> svgOuts[i].spec.children[k], out |-> svgOuts[i].out.children[k].svg] :
                    k \in 1..Len(svgOuts[i].out.children)} : i \in 1..Len(svgOuts)}

reactPairs ==
    {[spec |-> reactOuts[i].spec, out |-> reactOuts[i].out] : i \in 1..Len(reactOuts)}
    \cup UNION {{[spec |-> reactOuts[i].spec.children[k], out |-> reactOuts[i].out.children[k].node] :
                    k \in 1..Len(reactOuts[i].out.children)} : i \in 1..Len(reactOuts)}

\* The shadow layers the precedence rule asks for.
expectedShadows(spec, cardDefault) ==
    IF "shadows" \in spec.style.has /\ Len(spec.style.shadows) > 0
    THEN spec.style.shadows
    ELSE IF "shadow" \in spec.style.has
         THEN <<spec.style.shadow>>
         ELSE IF spec.type = "card" THEN cardDefault ELSE << >>

\* The shadow layers an <svg> carries: its <filter> entries in order.
svgShadows(out) ==
    LET isFilter(d) == d.kind = "filter"
        filters == SelectSeq(out.defs, isFilter)
    IN [k \in 1..Len(filters) |-> filters[k].shadow]

reactShadows(spec, out) == IF spec.type = "text" THEN out.textShadow ELSE out.boxShadow

\* The kinds that render a shadow.
SvgShadowKinds == {"button", "card"}
ReactShadowKinds == {"text", "button", "shape", "card", "badge"}

C23_SvgShadowPrecedence ==
    \A p \in svgPairs :
        p.spec.type \in SvgShadowKinds =>
            svgShadows(p.out) = expectedShadows(p.spec, <<SvgCardDefaultShadow>>)

\* C23 (react-renderer alone): componentToReact renders the shadows entries
\* in order when shadows is non-empty, else shadow, else nothing (a card: its
\* default).
C23_ReactShadowPrecedence ==
    \A p \in reactPairs :
        p.spec.type \in ReactShadowKinds =>
            reactShadows(p.spec, p.out) = expectedShadows(p.spec, ReactCardDefaultShadow)

\* C23: for every kind that renders a shadow, in either renderer, a
\* non-empty style.shadows is rendered entry by entry and style.shadow is
\* ignored; style.shadow is used only when shadows is absent or empty; with
\* neither there is no shadow (a card: its default).
C23_ShadowPrecedence ==
    /\ C23_SvgShadowPrecedence
    /\ C23_ReactShadowPrecedence

\* Where the child-positioning rule places a child.
childPlace(kid, par) ==
    LET dx == kid.position.x - par.position.x
        dy == kid.position.y - par.position.y
    IN IF dx \in 0..(par.size.width - 1) /\ dy \in 0..(par.size.height - 1)
       THEN <<dx, dy>>
       ELSE <<kid.position.x, kid.position.y>>

ParentKinds == {"card", "container"}

C24_SvgChildPositioning ==
    \A i \in 1..Len(svgOuts) :
        svgOuts[i].spec.type \in ParentKinds =>
            \A k \in 1..Len(svgOuts[i].out.children) :
                <<svgOuts[i].out.children[k].translate.x, svgOuts[i].out.children[k].translate.y>>
                    = childPlace(svgOuts[i].spec.children[k], svgOuts[i].spec)

\* C24 (react-renderer alone): a child of a card or container is placed at
\* child.position - parent.position when that lies in [0, parent.size) on
\* both axes, else at child.position.
C24_ReactChildPositioning ==
    \A i \in 1..Len(reactOuts) :
        reactOuts[i].spec.type \in ParentKinds =>
            \A k \in 1..Len(reactOuts[i].out.children) :
                <<reactOuts[i].out.children[k].left, reactOuts[i].out.children[k].top>>
                    = childPlace(reactOuts[i].spec.children[k], reactOuts[i].spec)

\* C24: in either renderer a child of a card or container is placed at
\* child.position - parent.position when that difference lies in
\* [0, parent.size) on both axes, and at child.position unchanged otherwise.
C24_ChildPositioning ==
    /\ C24_SvgChildPositioning
    /\ C24_ReactChildPositioning

C25_SvgRenderPure ==
    \A i, j \in 1..Len(svgOuts) :
        svgOuts[i].spec = svgOuts[j].spec => svgOuts[i].out = svgOuts[j].out

\* C25 (react-renderer alone): componentToReact gives the same node for the
\* same Component whatever was rendered before.
C25_ReactRenderPure ==
    \A i, j \in 1..Len(reactOuts) :
        reactOuts[i].spec = reactOuts[j].spec => reactOuts[i].out = reactOuts[j].out

\* C25: rendering the same Component twice in one process, whatever other
\* render calls come between, gives identical output (the identifiers of
\* gradient and filter definitions included).
C25_RenderPure ==
    /\ C25_SvgRenderPure
    /\ C25_ReactRenderPure

(***************************************************************************)
(* CanvasEditor.tsx: loadLayout, called by the effect on every change of   *)
(* the layout prop.  A call runs to its next await and is resumed when the *)
(* promise settles; calls that are suspended at the same time are resumed  *)
(* in the order the promises settle.                                       *)
(***************************************************************************)

\* The number of changes of the layout prop that are followed.
MaxLayouts == 2

\* The components arrays of the layouts the editor is given.
CanvasLayouts ==
    { <<RenderChoices[4]>>,
      <<RenderChoices[1], RenderChoices[11]>>,
      <<RenderChoices[6], RenderChoices[8]>>,
      << >> }

\* The fabric group loadLayout adds for a component; `load` is the call of
\* loadLayout that added it.
canvasGroup(comp, load) ==
    [componentId |-> comp.id, type |-> comp.type,
     left |-> comp.position.x, top |-> comp.position.y, load |-> load]

InitCanvas ==
    /\ pc = "mounted"
    /\ EngineIdle
    /\ EditIdle
    /\ RepairIdle
    /\ RenderIdle
    /\ CanvasIdle

\* useEffect(() => { if (layout) loadLayout(layout) }, [layout, loadLayout]):
\* the prop changes and loadLayout runs to `await import("fabric")`.
LayoutChanges ==
    /\ pc = "mounted"
    /\ version < MaxLayouts
    /\ \E comps \in CanvasLayouts :
          loads' = Append(loads, [spec |-> comps, at |-> "import", k |-> 0, failed |-> 0])
    /\ version' = version + 1
    /\ UNCHANGED <<pc, canvasObjects>>
    /\ UNCHANGED engineVars
    /\ UNCHANGED editVars
    /\ UNCHANGED repairVars
    /\ UNCHANGED renderVars

\* The loop of loadLayout from component k on, up to its next await:
\* componentToSVG(comp) and `await fabric.loadSVGFromString`, or, with no
\* component left, canvas.renderAll() and the end of the call.
loopFrom(i, k, failed) ==
    IF k <= Len(loads[i].spec)
    THEN LET r == componentToSVG(loads[i].spec[k], gradientCounter)
         IN /\ loads' = [loads EXCEPT ![i] = [spec |-> loads[i].spec, at |-> "svg",
                                              k |-> k, failed |-> failed]]
            /\ svgOuts' = Append(svgOuts, [spec |-> loads[i].spec[k], out |-> r.svg])
            /\ gradientCounter' = r.counter
    ELSE /\ loads' = [loads EXCEPT ![i] = [spec |-> loads[i].spec, at |-> "done",
                                           k |-> k, failed |-> failed]]
         /\ UNCHANGED <<svgOuts, gradientCounter>>

\* import("fabric") has settled: canvas.clear(), the dimensions and the
\* background, then the loop.  The calls await the same module and are
\* resumed in the order they were made.
ImportResolves ==
    /\ pc = "mounted"
    /\ \E i \in 1..Len(loads) :
          /\ loads[i].at = "import"
          /\ \A j \in 1..(i - 1) : loads[j].at # "import"
          /\ canvasObjects' = << >>
          /\ loopFrom(i, 1, loads[i].failed)
    /\ UNCHANGED <<pc, version, reactOuts>>
    /\ UNCHANGED engineVars
    /\ UNCHANGED editVars
    /\ UNCHANGED repairVars

\* loadSVGFromString has resolved for component k of call i: group it,
\* canvas.add(group), and on with the loop.
SvgLoads ==
    /\ pc = "mounted"
    /\ \E i \in 1..Len(loads) :
          /\ loads[i].at = "svg"
          /\ canvasObjects' = Append(canvasObjects, canvasGroup(loads[i].spec[loads[i].k], i))
          /\ loopFrom(i, loads[i].k + 1, loads[i].failed)
    /\ UNCHANGED <<pc, version, reactOuts>>
    /\ UNCHANGED engineVars
    /\ UNCHANGED editVars
    /\ UNCHANGED repairVars

\* loadSVGFromString has rejected: the catch logs a warning, nothing is
\* added, and the loop goes on.
SvgFails ==
    /\ pc = "mounted"
    /\ \E i \in 1..Len(loads) :
          /\ loads[i].at = "svg"
          /\ loopFrom(i, loads[i].k + 1, loads[i].failed + 1)
    /\ UNCHANGED <<pc, version, reactOuts, canvasObjects>>
    /\ UNCHANGED engineVars
    /\ UNCHANGED editVars
    /\ UNCHANGED repairVars

NextCanvas ==
    \/ LayoutChanges
    \/ ImportResolves
    \/ SvgLoads
    \/ SvgFails

SpecCanvas == InitCanvas /\ [][NextCanvas]_vars

\* ------------------------------------------------------------------------
\* Properties of the canvas reload
\* ------------------------------------------------------------------------

\* Every call of loadLayout has returned and no SVG failed to load.
allLoaded ==
    /\ version > 0
    /\ Len(loads) = version
    /\ \A i \in 1..Len(loads) : loads[i].at = "done" /\ loads[i].failed = 0

\* The objects a finished load of the latest layout puts on the canvas.
latestGroups ==
    [k \in 1..Len(loads[version].spec) |-> canvasGroup(loads[version].spec[k], version)]

\* C30: when the layout changed again while an earlier loadLayout was still
\* awaiting, then once every load has finished (and every SVG loaded) the
\* canvas holds exactly one object for each component of the latest layout
\* and no object of an earlier layout.
C30_ReloadRaceFree ==
    allLoaded => canvasObjects = latestGroups

\* C30 (the part that holds): once every load has finished, the objects the
\* latest call of loadLayout added are on the canvas, one for each component
\* of the latest layout, in order.
C30_LatestLayoutLoaded ==
    allLoaded =>
        LET ofLatest(g) == g.load = version
        IN SelectSeq(canvasObjects, ofLatest) = latestGroups

====
